---- MODULE Spec2Model ----
(***************************************************************************)
(* A model of the particle-life engine: the 2-D matrix container, the type *)
(* table, the bucketed particle grid with its step (impulse evaluation,    *)
(* integration, re-bucketing) and the snapshot protocol between the        *)
(* simulation thread and the UI thread.                                    *)
(*                                                                         *)
(* Real (f64) is modelled as fixed point: a Real is an integer number of   *)
(* 1/Unit parts and every operation rounds to the nearest such number.     *)
(* Squared distances keep the exact product (parts of 1/Unit^2).  The      *)
(* value 1e-5 of constrain_to_size, below that resolution, is one part.    *)
(***************************************************************************)
EXTENDS Integers, Sequences, FiniteSets, TLC

VARIABLES
    sim,            \* SpecSim: the ParticleSimulation under step_simulation
    pre,            \* SpecSim: sim as it was before the last operation;
                    \* SpecProto: simulation_buffer before the frame's last edit
    post_move,      \* SpecSim: the buckets between move_particles and organize_particles
    op,             \* the last operation that acted (all specifications)
    nsteps,         \* SpecSim: number of steps taken (bounded)
    probe,          \* SpecCell: a position and the result of bucket_index_of_position;
                    \* SpecPair: two particles and what each adds to the other's impulse
    type_data,      \* SpecTypes: a ParticleTypeData under its edit operations;
                    \* SpecPair: the table the pair's attraction is read from
    simulation,         \* SpecProto: the simulation thread's ParticleSimulation
    simulation_buffer,  \* SpecProto: the UI thread's ParticleSimulation
    user_input_rx,      \* SpecProto: snapshots in flight from the UI to the thread
    simulation_rx,      \* SpecProto: snapshots in flight from the thread to the UI
    worker_pc,          \* SpecProto: where the simulation thread is in its loop
    ui_pc,              \* SpecProto: where the UI thread is in its frame
    ui_line,            \* SpecProto: the line of main.rs of the frame's last edit
    updated,            \* SpecProto: the UI frame's flag `updated`
    edits,              \* SpecProto: the number of edits of the UI frame so far
    delivery,           \* SpecProto: the last receive, its snapshot's and the prior local id
    delivered,          \* SpecProto: the update_ids delivered to each endpoint so far
    published           \* SpecProto: the update_ids the UI has published, in order

proto_vars == <<simulation, simulation_buffer, user_input_rx, simulation_rx,
                worker_pc, ui_pc, ui_line, updated, edits, delivery, delivered,
                published>>

vars == <<sim, pre, post_move, op, nsteps, probe, type_data, simulation,
          simulation_buffer, user_input_rx, simulation_rx, worker_pc, ui_pc,
          ui_line, updated, edits, delivery, delivered, published>>

-----------------------------------------------------------------------------
(* Fixed-point reals *)

Unit == 100

PARTICLE_RADIUS == 5 * Unit

\* 1e-5 of constrain_to_size: the smallest positive Real of the model
EPSILON == 1

Abs(x) == IF x < 0 THEN -x ELSE x

Sgn(x) == IF x < 0 THEN -1 ELSE IF x > 0 THEN 1 ELSE 0

\* n / d rounded to the nearest integer, d > 0
RoundDiv(n, d) == Sgn(n) * ((2 * Abs(n) + d) \div (2 * d))

\* a * b of two Reals
RMul(a, b) == RoundDiv(a * b, Unit)

\* f64::div_euclid(x, s) for s > 0: the floor of x / s (an integer)
DivEuclid(x, s) == x \div s

\* f64::rem_euclid(x, s) for s > 0
RemEuclid(x, s) == x % s

\* f64::sqrt of a squared distance (parts of 1/Unit^2), as a Real
Sqrt(d2) == CHOOSE r \in 0..(2 * Unit) : r * r <= d2 /\ d2 < (r + 1) * (r + 1)

\* the sum of the first n of a sequence of 2-vectors
RECURSIVE VecSumTo(_, _)
VecSumTo(s, n) ==
    IF n = 0 THEN <<0, 0>>
    ELSE LET r == VecSumTo(s, n - 1)
         IN  <<r[1] + s[n][1], r[2] + s[n][2]>>

\* the sum of a sequence of 2-vectors
VecSum(s) == VecSumTo(s, Len(s))

\* the concatenation of the first n of a sequence of sequences
RECURSIVE FlattenTo(_, _)
FlattenTo(ss, n) == IF n = 0 THEN <<>> ELSE FlattenTo(ss, n - 1) \o ss[n]

\* the concatenation of a sequence of sequences
Flatten(ss) == FlattenTo(ss, Len(ss))

-----------------------------------------------------------------------------
(* matrix.rs: Matrix<T>, indices are pairs <<i, j>> counted from 0 *)

\* Matrix::from_element
from_element(size, element) ==
    [size |-> size, data |-> [k \in 1..(size[1] * size[2]) |-> element]]

\* Matrix::from_fn: the elements are generated for i in 0..size[0], j in 0..size[1]
\* (j running fastest) and collected in that order
from_fn(size, function) ==
    [size |-> size,
     data |-> [k \in 1..(size[1] * size[2]) |->
                 function[<<(k - 1) \div size[2], (k - 1) % size[2]>>]]]

\* Matrix::check_index_bounds (TRUE for Some(()))
check_index_bounds(m, index) ==
    /\ index[1] >= 0 /\ index[1] < m.size[1]
    /\ index[2] >= 0 /\ index[2] < m.size[2]

\* the slot of the backing store Matrix::get and get_mut read
Slot(m, index) == index[1] + index[2] * m.size[1] + 1

\* Matrix::get / Index::index for an index in bounds
MatrixGet(m, index) == m.data[Slot(m, index)]

\* IndexMut::index_mut followed by an assignment
MatrixSet(m, index, value) ==
    [m EXCEPT !.data = [m.data EXCEPT ![Slot(m, index)] = value]]

\* all indices of a size
Indices(size) == (0..(size[1] - 1)) \X (0..(size[2] - 1))

-----------------------------------------------------------------------------
(* particle_simulation.rs: ParticleTypeData (colors are derived from       *)
(* num_types alone and are left out)                                       *)

\* ParticleTypeData::num_types
num_types(td) == td.base_attractions.size[1]

\* ParticleTypeData::attraction_scale
attraction_scale(td) == td.attraction_scale

\* ParticleTypeData::scale_attractions
scale_attractions(base_attractions, scale) ==
    from_fn(base_attractions.size,
            [index \in Indices(base_attractions.size) |->
                RMul(MatrixGet(base_attractions, index), scale)])

\* ParticleTypeData::new_from_fn; function maps every index to the value the
\* closure returns for it
new_from_fn(n, scale, function) ==
    LET base_attractions == from_fn(<<n, n>>, function)
    IN  [base_attractions   |-> base_attractions,
         scaled_attractions |-> scale_attractions(base_attractions, scale),
         attraction_scale   |-> scale]

\* ParticleTypeData::resize; fresh maps every index to the value the random
\* generator yields when the old table has no entry there
resize(td, n, fresh) ==
    new_from_fn(n, attraction_scale(td),
                [index \in Indices(<<n, n>>) |->
                    IF check_index_bounds(td.base_attractions, index)
                    THEN MatrixGet(td.base_attractions, index)
                    ELSE fresh[index]])

\* ParticleTypeData::rescale_attractions
rescale_attractions(td, scale) ==
    [td EXCEPT !.attraction_scale = scale,
               !.scaled_attractions = scale_attractions(td.base_attractions, scale)]

\* main.rs, the attraction element edit: base and scaled are set at [i, j]
set_attraction(td, index, value) ==
    [td EXCEPT !.base_attractions = MatrixSet(td.base_attractions, index, value),
               !.scaled_attractions =
                    MatrixSet(td.scaled_attractions, index,
                              RMul(value, attraction_scale(td)))]

\* get_attraction with source and target exchanged
get_attraction_swapped(td, source, target) ==
    MatrixGet(td.scaled_attractions, <<target, source>>)

\* ParticleTypeData::get_attraction
get_attraction(td, source, target) ==
    MatrixGet(td.scaled_attractions, <<source, target>>)

-----------------------------------------------------------------------------
(* particle_simulation.rs: Particle *)

\* Particle::new
NewParticle(position, velocity, typ) ==
    [position |-> position, velocity |-> velocity, typ |-> typ]

\* apply_velocity moving the particle by its whole velocity
apply_velocity_whole(p, impulse) ==
    LET v == <<p.velocity[1] + impulse[1], p.velocity[2] + impulse[2]>>
    IN  [p EXCEPT !.velocity = <<RoundDiv(v[1] * 9, 10), RoundDiv(v[2] * 9, 10)>>,
                  !.position = <<p.position[1] + v[1], p.position[2] + v[2]>>]

\* apply_velocity with the velocity damped before the displacement
apply_velocity_damped_first(p, impulse) ==
    LET v == <<RoundDiv((p.velocity[1] + impulse[1]) * 9, 10),
               RoundDiv((p.velocity[2] + impulse[2]) * 9, 10)>>
    IN  [p EXCEPT !.velocity = v,
                  !.position = <<p.position[1] + RoundDiv(v[1], 2),
                                 p.position[2] + RoundDiv(v[2], 2)>>]

\* Particle::apply_velocity
apply_velocity(p, impulse) ==
    LET v == <<p.velocity[1] + impulse[1], p.velocity[2] + impulse[2]>>
    IN  [p EXCEPT !.velocity = <<RoundDiv(v[1] * 9, 10), RoundDiv(v[2] * 9, 10)>>,
                  !.position = <<p.position[1] + RoundDiv(v[1], 2),
                                 p.position[2] + RoundDiv(v[2], 2)>>]

MINIMUM_DISTANCE == 2 * PARTICLE_RADIUS

MINIMUM_DISTANCE_SQUARED == MINIMUM_DISTANCE * MINIMUM_DISTANCE

\* attraction with the close range ending below MINIMUM_DISTANCE_SQUARED
attraction_close_exclusive(self, other, td, params, distance_squared) ==
    IF distance_squared >= MINIMUM_DISTANCE_SQUARED
    THEN <<get_attraction(td, self.typ, other.typ) * Unit, distance_squared>>
    ELSE IF params.prevent_particle_ejecting /\ distance_squared < Unit * Unit
    THEN <<PARTICLE_RADIUS, Sqrt(distance_squared)>>
    ELSE <<-PARTICLE_RADIUS * Unit, distance_squared>>

\* attraction with twice the factor below distance 1
attraction_short_doubled(self, other, td, params, distance_squared) ==
    IF distance_squared > MINIMUM_DISTANCE_SQUARED
    THEN <<get_attraction(td, self.typ, other.typ) * Unit, distance_squared>>
    ELSE IF params.prevent_particle_ejecting /\ distance_squared < Unit * Unit
    THEN <<2 * PARTICLE_RADIUS, Sqrt(distance_squared)>>
    ELSE <<-PARTICLE_RADIUS * Unit, distance_squared>>

\* the attraction factor of update_impulse_with_particle as a fraction
\* <<numerator, denominator>>: delta * attraction is delta * numerator / denominator
attraction(self, other, td, params, distance_squared) ==
    IF distance_squared > MINIMUM_DISTANCE_SQUARED
    THEN <<get_attraction(td, self.typ, other.typ) * Unit, distance_squared>>
    ELSE IF params.prevent_particle_ejecting /\ distance_squared < Unit * Unit
    THEN <<PARTICLE_RADIUS, Sqrt(distance_squared)>>
    ELSE <<-PARTICLE_RADIUS * Unit, distance_squared>>

\* update_impulse_with_particle with `>=` for the `>` of its cutoff test
update_impulse_cutoff_exclusive(self, other, td, params, max_d2, random_vector) ==
    LET delta_position ==
            IF self.position = other.position
            THEN random_vector
            ELSE <<other.position[1] - self.position[1],
                   other.position[2] - self.position[2]>>
        distance_squared ==
            delta_position[1] * delta_position[1] + delta_position[2] * delta_position[2]
        a == attraction(self, other, td, params, distance_squared)
    IN  IF distance_squared >= max_d2
        THEN <<0, 0>>
        ELSE <<RoundDiv(delta_position[1] * a[1], a[2]),
               RoundDiv(delta_position[2] * a[1], a[2])>>

\* Particle::update_impulse_with_particle: what it adds to the impulse;
\* random_vector is the outcome of random_vector() should it be called
update_impulse_with_particle(self, other, td, params, max_d2, random_vector) ==
    LET delta_position ==
            IF self.position = other.position
            THEN random_vector
            ELSE <<other.position[1] - self.position[1],
                   other.position[2] - self.position[2]>>
        distance_squared ==
            delta_position[1] * delta_position[1] + delta_position[2] * delta_position[2]
        a == attraction(self, other, td, params, distance_squared)
    IN  IF distance_squared > max_d2
        THEN <<0, 0>>
        ELSE <<RoundDiv(delta_position[1] * a[1], a[2]),
               RoundDiv(delta_position[2] * a[1], a[2])>>

\* Particle::constrain_to_size: <<the particle, direction>>
constrain_to_size(p, size) ==
    LET lim == <<size[1] - EPSILON, size[2] - EPSILON>>
        dir(k) == IF p.position[k] < 0 THEN 1
                  ELSE IF p.position[k] > lim[k] THEN -1 ELSE 0
        pos(k) == IF p.position[k] < 0 THEN 0
                  ELSE IF p.position[k] > lim[k] THEN lim[k] ELSE p.position[k]
    IN  <<[p EXCEPT !.position = <<pos(1), pos(2)>>], <<dir(1), dir(2)>>>>

-----------------------------------------------------------------------------
(* particle_simulation.rs: ParticleSimulation *)

Wrapping == [kind |-> "Wrapping", multiplier |-> 0, pushback |-> 0]

Deleting == [kind |-> "Deleting", multiplier |-> 0, pushback |-> 0]

Bouncing(multiplier, pushback) ==
    [kind |-> "Bouncing", multiplier |-> multiplier, pushback |-> pushback]

\* ParticleSimulationMetadata::default (the timing fields, which no
\* operation reads back, are left out)
DefaultMetadata ==
    [is_active |-> TRUE, steps |-> 0, update_id |-> 0, num_particles |-> 0]

\* ParticleSimulation::new
NewSimulation(bucket_size, buckets, params, metadata, td) ==
    [buckets     |-> from_element(buckets, <<>>),
     impulses    |-> from_element(buckets, <<>>),
     bucket_size |-> bucket_size,
     type_data   |-> td,
     params      |-> params,
     metadata    |-> metadata]

\* ParticleSimulation::size
SimSize(s) == <<s.buckets.size[1] * s.bucket_size, s.buckets.size[2] * s.bucket_size>>

\* the result of bucket_index_of_position when it is None
None == <<-1, -1>>

\* the cast `as usize` of a whole Real: negative values become 0
AsUsize(x) == IF x < 0 THEN 0 ELSE x

\* bucket_index_of_position without its test for a negative quotient
bucket_index_unchecked(s, position) ==
    IF position[1] < 0 /\ position[2] < 0 THEN None
    ELSE LET bucket_position == <<AsUsize(DivEuclid(position[1], s.bucket_size)),
                                  AsUsize(DivEuclid(position[2], s.bucket_size))>>
         IN  IF ~check_index_bounds(s.buckets, bucket_position) THEN None
             ELSE bucket_position

\* ParticleSimulation::bucket_index_of_position
bucket_index_of_position(s, position) ==
    IF position[1] < 0 /\ position[2] < 0 THEN None
    ELSE LET bucket_position == <<DivEuclid(position[1], s.bucket_size),
                                  DivEuclid(position[2], s.bucket_size)>>
         IN  IF bucket_position[1] < 0 \/ bucket_position[2] < 0 THEN None
             ELSE IF ~check_index_bounds(s.buckets,
                                         <<AsUsize(bucket_position[1]),
                                           AsUsize(bucket_position[2])>>) THEN None
             ELSE <<AsUsize(bucket_position[1]), AsUsize(bucket_position[2])>>

\* self.buckets[index].push(particle)
PushParticle(s, index, p) ==
    [s EXCEPT !.buckets = MatrixSet(s.buckets, index,
                                    Append(MatrixGet(s.buckets, index), p))]

\* insert_particle without its count of the particle
insert_particle_uncounted(s, p) ==
    LET index == bucket_index_of_position(s, p.position)
    IN  IF index = None THEN s ELSE PushParticle(s, index, p)

\* ParticleSimulation::insert_particle
insert_particle(s, p) ==
    LET counted == [s EXCEPT !.metadata.num_particles = @ + 1]
        index == bucket_index_of_position(s, p.position)
    IN  IF index = None THEN counted ELSE PushParticle(counted, index, p)

\* ParticleSimulation::clear_particles
clear_particles(s) ==
    [s EXCEPT !.metadata.num_particles = 0,
              !.buckets.data = [k \in DOMAIN s.buckets.data |-> <<>>]]

\* randomize_particles_above_type with `>` for its `>=`
randomize_particles_strictly_above(s, n, draw) ==
    [s EXCEPT !.buckets.data =
        [k \in DOMAIN s.buckets.data |->
            [i \in DOMAIN s.buckets.data[k] |->
                IF s.buckets.data[k][i].typ > n
                THEN [s.buckets.data[k][i] EXCEPT !.typ = draw[k][i]]
                ELSE s.buckets.data[k][i]]]]

\* ParticleSimulation::randomize_particles_above_type; draw[k][n] is the type
\* the generator yields for particle n of bucket k should it be asked
randomize_particles_above_type(s, n, draw) ==
    [s EXCEPT !.buckets.data =
        [k \in DOMAIN s.buckets.data |->
            [i \in DOMAIN s.buckets.data[k] |->
                IF s.buckets.data[k][i].typ >= n
                THEN [s.buckets.data[k][i] EXCEPT !.typ = draw[k][i]]
                ELSE s.buckets.data[k][i]]]]

\* the first n insertions of add_random_particles
RECURSIVE InsertFirst(_, _, _)
InsertFirst(s, particles, n) ==
    IF n = 0 THEN s
    ELSE insert_particle(InsertFirst(s, particles, n - 1), particles[n])

\* ParticleSimulation::add_random_particles; particles are the random draws
add_random_particles(s, particles) == InsertFirst(s, particles, Len(particles))

-----------------------------------------------------------------------------
(* ParticleSimulation::move_particles *)

\* the bucket index of slot i (counted from 1) of buckets.data
BucketIndexOfSlot(s, i) ==
    <<(i - 1) % s.buckets.size[1], (i - 1) \div s.buckets.size[1]>>

NEIGHBORS ==
    << <<-1, 1>>, <<0, 1>>, <<1, 1>>,
       <<-1, 0>>,           <<1, 0>>,
       <<-1, -1>>, <<0, -1>>, <<1, -1>> >>

\* the neighbour traversal wrapping the bucket index but not the positions
NeighborBucketUnshifted(s, bucket_index, rel) ==
    LET nb == <<bucket_index[1] + rel[1], bucket_index[2] + rel[2]>>
        wrapped(k) == IF nb[k] < 0 THEN s.buckets.size[k] - 1
                      ELSE IF nb[k] >= s.buckets.size[k] THEN 0 ELSE nb[k]
    IN  IF check_index_bounds(s.buckets, nb)
        THEN [present |-> TRUE, index |-> nb, offset |-> <<0, 0>>]
        ELSE IF s.params.edge_type.kind = "Wrapping"
        THEN [present |-> TRUE, index |-> <<wrapped(1), wrapped(2)>>,
              offset |-> <<0, 0>>]
        ELSE [present |-> FALSE, index |-> nb, offset |-> <<0, 0>>]

\* the bucket a neighbour offset leads to and the offset added to the positions
\* of its particles; present is FALSE when the neighbour contributes nothing
NeighborBucket(s, bucket_index, rel) ==
    LET nb == <<bucket_index[1] + rel[1], bucket_index[2] + rel[2]>>
        wrapped(k) == IF nb[k] < 0 THEN s.buckets.size[k] - 1
                      ELSE IF nb[k] >= s.buckets.size[k] THEN 0 ELSE nb[k]
        offset(k)  == IF nb[k] < 0 THEN -(s.bucket_size * s.buckets.size[k])
                      ELSE IF nb[k] >= s.buckets.size[k]
                           THEN s.bucket_size * s.buckets.size[k] ELSE 0
    IN  IF check_index_bounds(s.buckets, nb)
        THEN [present |-> TRUE, index |-> nb, offset |-> <<0, 0>>]
        ELSE IF s.params.edge_type.kind = "Wrapping"
        THEN [present |-> TRUE, index |-> <<wrapped(1), wrapped(2)>>,
              offset |-> <<offset(1), offset(2)>>]
        ELSE [present |-> FALSE, index |-> nb, offset |-> <<0, 0>>]

\* the particles update_impulse_with_particle is called with for particle k of
\* slot i, in call order: src 0 is the own bucket, src n the n-th neighbour
Others(s, i, k) ==
    LET bucket == s.buckets.data[i]
        own == SelectSeq([j \in 1..Len(bucket) |->
                            [src |-> 0, j |-> j, other |-> bucket[j]]],
                         LAMBDA e : e.j # k)
        from(n) ==
            LET nb == NeighborBucket(s, BucketIndexOfSlot(s, i), NEIGHBORS[n])
                neighbor_bucket == MatrixGet(s.buckets, nb.index)
            IN  IF ~nb.present THEN <<>>
                ELSE [j \in 1..Len(neighbor_bucket) |->
                        [src |-> n, j |-> j,
                         other |-> [neighbor_bucket[j] EXCEPT
                                      !.position = <<@[1] + nb.offset[1],
                                                     @[2] + nb.offset[2]>>]]]
    IN  own \o Flatten([n \in 1..Len(NEIGHBORS) |-> from(n)])

\* the calls of a step in which the two positions are equal, so that
\* random_vector() is called: <<slot, particle, src, j>>
Coincident(s) ==
    UNION {UNION {{<<i, k, e.src, e.j>> : e \in
                      {x \in {Others(s, i, k)[n] : n \in 1..Len(Others(s, i, k))} :
                           x.other.position = s.buckets.data[i][k].position}} :
                  k \in 1..Len(s.buckets.data[i])} :
           i \in DOMAIN s.buckets.data}

\* the impulse computed for particle k of slot i; jitter gives the outcome of
\* every call of random_vector()
Impulse(s, i, k, jitter) ==
    LET others == Others(s, i, k)
        self == s.buckets.data[i][k]
    IN  VecSum([n \in 1..Len(others) |->
                  update_impulse_with_particle(
                      self, others[n].other, s.type_data, s.params,
                      s.bucket_size * s.bucket_size,
                      IF self.position = others[n].other.position
                      THEN jitter[<<i, k, others[n].src, others[n].j>>]
                      ELSE <<0, 0>>)])

\* the impulse matrix as filled by the first phase of move_particles
FilledImpulses(s, jitter) ==
    [s.impulses EXCEPT !.data =
        [i \in DOMAIN s.buckets.data |->
            [k \in 1..Len(s.buckets.data[i]) |-> Impulse(s, i, k, jitter)]]]

\* move_particles without the clearing of the impulses
move_particles_keeping_impulses(s, jitter) ==
    LET impulses == FilledImpulses(s, jitter)
    IN  [s EXCEPT !.buckets.data =
                      [i \in DOMAIN s.buckets.data |->
                          [k \in 1..Len(s.buckets.data[i]) |->
                              apply_velocity(s.buckets.data[i][k], impulses.data[i][k])]],
                  !.impulses = impulses]

\* ParticleSimulation::move_particles
move_particles(s, jitter) ==
    LET impulses == FilledImpulses(s, jitter)
    IN  [s EXCEPT !.buckets.data =
                      [i \in DOMAIN s.buckets.data |->
                          [k \in 1..Len(s.buckets.data[i]) |->
                              apply_velocity(s.buckets.data[i][k], impulses.data[i][k])]],
                  !.impulses.data = [i \in DOMAIN s.impulses.data |-> <<>>]]

-----------------------------------------------------------------------------
(* ParticleSimulation::organize_particles *)

\* Vec::swap_remove
swap_remove(v, i) ==
    IF i = Len(v) THEN SubSeq(v, 1, Len(v) - 1)
    ELSE SubSeq([v EXCEPT ![i] = v[Len(v)]], 1, Len(v) - 1)

\* the test that keeps a particle in its bucket
InCorners(p, min_corner, max_corner) ==
    /\ p.position[1] >= min_corner[1]
    /\ p.position[1] <= max_corner[1]
    /\ p.position[2] >= min_corner[2]
    /\ p.position[2] <= max_corner[2]

\* the extraction loop over one bucket: <<bucket, disorganized_particles>>
RECURSIVE ExtractLoop(_, _, _, _, _)
ExtractLoop(bucket, i, disorganized, min_corner, max_corner) ==
    IF i > Len(bucket) THEN <<bucket, disorganized>>
    ELSE IF InCorners(bucket[i], min_corner, max_corner)
    THEN ExtractLoop(bucket, i + 1, disorganized, min_corner, max_corner)
    ELSE ExtractLoop(swap_remove(bucket, i), i, Append(disorganized, bucket[i]),
                     min_corner, max_corner)

\* the extraction of slot i
Extract(s, i) ==
    LET bucket_index == BucketIndexOfSlot(s, i)
        min_corner == <<bucket_index[1] * s.bucket_size, bucket_index[2] * s.bucket_size>>
        max_corner == <<min_corner[1] + s.bucket_size, min_corner[2] + s.bucket_size>>
    IN  ExtractLoop(s.buckets.data[i], 1, <<>>, min_corner, max_corner)

\* the velocity a bounce sets on an axis
BounceVelocity(v, edge_type, direction) ==
    (RMul(Abs(v), edge_type.multiplier) + edge_type.pushback) * direction

\* the body of the re-insertion loop for one extracted particle
Reinsert(s, particle) ==
    LET index == bucket_index_of_position(s, particle.position)
        left == [s EXCEPT !.metadata.num_particles = @ - 1]
        size == SimSize(s)
        wrapped == [particle EXCEPT !.position = <<RemEuclid(@[1], size[1]),
                                                   RemEuclid(@[2], size[2])>>]
        constrained == constrain_to_size(particle, size)
        direction == constrained[2]
        bounced == [constrained[1] EXCEPT
                      !.velocity = <<IF direction[1] # 0
                                     THEN BounceVelocity(@[1], s.params.edge_type,
                                                         direction[1])
                                     ELSE @[1],
                                     IF direction[2] # 0
                                     THEN BounceVelocity(@[2], s.params.edge_type,
                                                         direction[2])
                                     ELSE @[2]>>]
    IN  IF index # None THEN PushParticle(s, index, particle)
        ELSE IF s.params.edge_type.kind = "Wrapping" THEN insert_particle(left, wrapped)
        ELSE IF s.params.edge_type.kind = "Bouncing" THEN insert_particle(left, bounced)
        ELSE left

\* the first n rounds of the re-insertion loop
RECURSIVE ReinsertFirst(_, _, _)
ReinsertFirst(s, particles, n) ==
    IF n = 0 THEN s
    ELSE Reinsert(ReinsertFirst(s, particles, n - 1), particles[n])

\* ParticleSimulation::organize_particles
organize_particles(s) ==
    LET extracted == [i \in DOMAIN s.buckets.data |-> Extract(s, i)]
        kept == [s EXCEPT !.buckets.data = [i \in DOMAIN s.buckets.data |-> extracted[i][1]]]
        disorganized_particles == Flatten([i \in DOMAIN s.buckets.data |-> extracted[i][2]])
    IN  ReinsertFirst(kept, disorganized_particles, Len(disorganized_particles))

\* ParticleSimulation::step_simulation
step_simulation(s, jitter) == organize_particles(move_particles(s, jitter))

-----------------------------------------------------------------------------
(* Bounds of the type-table inputs *)

\* the largest number of types explored (the program allows 1..250)
MaxTypes == 2

\* values random_range(-1.0..=1.0) is taken to yield, and element edits set
AttractionValues == {-Unit, 0, Unit}

\* attraction scales explored (the UI allows -1000..1000)
Scales == {0, Unit, 2 * Unit}

TypeCounts == 1..MaxTypes

\* the closures handed to new_from_fn: every index gets a value
Closures(n) == [Indices(<<n, n>>) -> AttractionValues]

\* the random draws of a resize to n: one for every index the old table lacks
FreshDraws(td, n) ==
    [{index \in Indices(<<n, n>>) : ~check_index_bounds(td.base_attractions, index)}
        -> AttractionValues]

\* ParticleTypeData::new_random, its random draws given by function
new_random(n, scale, function) == new_from_fn(n, scale, function)

\* the values of the variables a specification does not use
NoSim == [none |-> TRUE]

\* the snapshot protocol at rest in the specifications that do not run it
NoProto ==
    /\ simulation = NoSim /\ simulation_buffer = NoSim
    /\ user_input_rx = <<>> /\ simulation_rx = <<>>
    /\ worker_pc = "none" /\ ui_pc = "none" /\ ui_line = 0 /\ updated = FALSE
    /\ edits = 0 /\ delivery = NoSim /\ delivered = NoSim /\ published = <<>>

-----------------------------------------------------------------------------
(* SpecTypes: the type table under its edit operations *)

InitTypes ==
    /\ \E n \in TypeCounts, s \in Scales :
          \E f \in Closures(n) : type_data = new_random(n, s, f)
    /\ op = "new_random"
    /\ sim = NoSim /\ pre = NoSim /\ post_move = NoSim /\ nsteps = 0
    /\ probe = NoSim
    /\ NoProto

TypesFrame == UNCHANGED <<sim, pre, post_move, nsteps, probe, proto_vars>>

\* main.rs "Randomize": a new random table of the same size and scale
TypesRandomize ==
    /\ \E f \in Closures(num_types(type_data)) :
          type_data' = new_random(num_types(type_data), attraction_scale(type_data), f)
    /\ op' = "new_random"
    /\ TypesFrame

\* main.rs "Clear": new_from_fn with the closure |_| 0.0
TypesClear ==
    /\ type_data' = new_from_fn(num_types(type_data), attraction_scale(type_data),
                                [index \in Indices(type_data.base_attractions.size) |-> 0])
    /\ op' = "new_from_fn"
    /\ TypesFrame

\* ParticleTypeData::resize
TypesResize ==
    /\ \E n \in TypeCounts :
          \E fresh \in FreshDraws(type_data, n) : type_data' = resize(type_data, n, fresh)
    /\ op' = "resize"
    /\ TypesFrame

\* ParticleTypeData::rescale_attractions
TypesRescale ==
    /\ \E s \in Scales : type_data' = rescale_attractions(type_data, s)
    /\ op' = "rescale_attractions"
    /\ TypesFrame

\* main.rs, the attraction element edit (taken when the input differs)
TypesSetElement ==
    /\ \E index \in Indices(type_data.base_attractions.size), v \in AttractionValues :
          /\ v # MatrixGet(type_data.base_attractions, index)
          /\ type_data' = set_attraction(type_data, index, v)
    /\ op' = "set_attraction"
    /\ TypesFrame

NextTypes ==
    \/ TypesRandomize
    \/ TypesClear
    \/ TypesResize
    \/ TypesRescale
    \/ TypesSetElement

SpecTypes == InitTypes /\ [][NextTypes]_vars

\* scaled_attractions[i, j] = base_attractions[i, j] * attraction_scale everywhere
ScaledIsBaseTimesScale(td) ==
    \A index \in Indices(td.base_attractions.size) :
        MatrixGet(td.scaled_attractions, index)
            = RMul(MatrixGet(td.base_attractions, index), attraction_scale(td))

\* C6: after every type-table edit, scaled_attractions[i, j] equals
\* base_attractions[i, j] * attraction_scale for all i, j < num_types, both
\* read through the Matrix index operator.
C6_ScaledInvariant == ScaledIsBaseTimesScale(type_data)

\* C7: resize(n') keeps existing entries: for all i, j < min(n, n') the
\* resized base_attractions[i, j] is the old base_attractions[i, j], and
\* attraction_scale is unchanged.
C7_ResizeKeepsEntries ==
    [][op' = "resize" =>
        /\ attraction_scale(type_data') = attraction_scale(type_data)
        /\ \A index \in Indices(type_data'.base_attractions.size) :
              check_index_bounds(type_data.base_attractions, index) =>
                  MatrixGet(type_data'.base_attractions, index)
                      = MatrixGet(type_data.base_attractions, index)]_vars

-----------------------------------------------------------------------------
(* SpecSim: one ParticleSimulation under step_simulation *)

\* the most particles seeded
MaxParticles == 2

\* the most steps taken
MaxSteps == 2

\* main.rs, simulation_from_size: bucket_size
BUCKET_SIZE == 100 * Unit

\* the grids explored
GridSizes == {<<2, 2>>}

\* the seeds: the positions and velocities particles start from
Seeds ==
    << [position |-> <<50 * Unit, 50 * Unit>>,  velocity |-> <<0, 0>>],
       [position |-> <<60 * Unit, 50 * Unit>>,  velocity |-> <<0, 0>>],
       [position |-> <<50 * Unit, 50 * Unit>>,  velocity |-> <<2 * Unit, 0>>],
       [position |-> <<99 * Unit, 50 * Unit>>,  velocity |-> <<2 * Unit, 0>>],
       [position |-> <<199 * Unit, 50 * Unit>>, velocity |-> <<2 * Unit, 0>>],
       [position |-> <<199 * Unit, 50 * Unit>>, velocity |-> <<4 * Unit, 0>>],
       [position |-> <<0, 50 * Unit>>,          velocity |-> <<-3 * Unit, 0>>],
       [position |-> <<50 * Unit, 199 * Unit>>, velocity |-> <<0, 2 * Unit>>],
       [position |-> <<150 * Unit, 0>>,         velocity |-> <<0, -3 * Unit>>],
       [position |-> <<99 * Unit, 99 * Unit>>,  velocity |-> <<2 * Unit, 2 * Unit>>] >>

\* seedings of n particles, without regard to order
Seedings(n) ==
    {q \in [1..n -> 1..Len(Seeds)] : \A k \in 1..(n - 1) : q[k] <= q[k + 1]}

\* the type tables explored: one type attracting itself, and two types with
\* the closure value +1 at [0, 1] and -1 at [1, 0]
SimTypeData ==
    {new_from_fn(1, Unit, [index \in Indices(<<1, 1>>) |-> Unit]),
     new_from_fn(2, Unit, [index \in Indices(<<2, 2>>) |->
                             IF index[1] < index[2] THEN Unit
                             ELSE IF index[1] > index[2] THEN -Unit ELSE 0])}

\* the edge types explored; Bouncing with the UI's initial values
EdgeTypes == {Wrapping, Deleting, Bouncing(Unit, (5 * Unit) \div 2)}

\* outcomes of random_vector(): components of magnitude 0.1
RandomVectors == {-(Unit \div 10), Unit \div 10} \X {-(Unit \div 10), Unit \div 10}

Jitters(s) == [Coincident(s) -> RandomVectors]

\* the simulation seeded with the particles of q, particle k of type k mod num_types
Seeded(size, params, td, q) ==
    add_random_particles(
        NewSimulation(BUCKET_SIZE, size, params, DefaultMetadata, td),
        [k \in DOMAIN q |->
            NewParticle(Seeds[q[k]].position, Seeds[q[k]].velocity,
                        (k - 1) % num_types(td))])

InitSim ==
    /\ \E size \in GridSizes, edge_type \in EdgeTypes, prevent \in BOOLEAN,
          td \in SimTypeData, n \in 0..MaxParticles :
          \E q \in Seedings(n) :
             sim = Seeded(size,
                          [edge_type |-> edge_type, prevent_particle_ejecting |-> prevent],
                          td, q)
    /\ pre = sim
    /\ post_move = [buckets |-> sim.buckets, impulses |-> sim.impulses]
    /\ op = "new"
    /\ nsteps = 0
    /\ probe = NoSim
    /\ type_data = NoSim
    /\ NoProto

\* ParticleSimulation::step_simulation
SimStep ==
    /\ nsteps < MaxSteps
    /\ \E jitter \in Jitters(sim) :
          /\ sim' = step_simulation(sim, jitter)
          /\ post_move' = [buckets  |-> move_particles(sim, jitter).buckets,
                           impulses |-> FilledImpulses(sim, jitter)]
    /\ pre' = sim
    /\ op' = "step_simulation"
    /\ nsteps' = nsteps + 1
    /\ UNCHANGED <<probe, type_data, proto_vars>>

NextSim == SimStep

SpecSim == InitSim /\ [][NextSim]_vars

\* all particles of a matrix of buckets, bucket after bucket
AllParticles(buckets) == Flatten(buckets.data)

\* floor(p.x / cell_size) = cx and floor(p.y / cell_size) = cy for every
\* particle p of every cell (cx, cy)
BucketInvariant(s) ==
    \A i \in DOMAIN s.buckets.data :
        \A k \in 1..Len(s.buckets.data[i]) :
            <<DivEuclid(s.buckets.data[i][k].position[1], s.bucket_size),
              DivEuclid(s.buckets.data[i][k].position[2], s.bucket_size)>>
                = BucketIndexOfSlot(s, i)

\* C1: whenever step_simulation returns, started where the bucket invariant
\* holds, every particle stored in cell (cx, cy) has floor(x / cell_size) = cx
\* and floor(y / cell_size) = cy; a position on a cell edge belongs to the
\* higher-index cell.
C1_BucketInvariant ==
    (op = "step_simulation" /\ BucketInvariant(pre)) => BucketInvariant(sim)

\* the step just taken ran under a conserving edge type
Conserving(s) == s.params.edge_type.kind \in {"Wrapping", "Bouncing"}

\* C4: with edge_type Wrapping or Bouncing, num_particles after
\* step_simulation equals its value before.
C4_PopulationConserved ==
    (op = "step_simulation" /\ Conserving(pre)) =>
        sim.metadata.num_particles = pre.metadata.num_particles

\* a particle left the world in the step just taken and was put back
C4_Witness ==
    /\ op = "step_simulation" /\ Conserving(pre)
    /\ \E n \in 1..Len(AllParticles(post_move.buckets)) :
          bucket_index_of_position(pre, AllParticles(post_move.buckets)[n].position) = None
    /\ sim.metadata.num_particles = 2

\* the position lies in [0, W * cell_size) x [0, H * cell_size)
InWorld(s, position) ==
    /\ 0 <= position[1] /\ position[1] < SimSize(s)[1]
    /\ 0 <= position[2] /\ position[2] < SimSize(s)[2]

\* the particles integration left outside the world
LeftWorld(s, buckets) ==
    Cardinality({n \in 1..Len(AllParticles(buckets)) :
                    ~InWorld(s, AllParticles(buckets)[n].position)})

\* C5: with edge_type Deleting, step_simulation decreases num_particles by
\* exactly the number of particles whose post-integration position lies
\* outside the world [0, W * cell_size) x [0, H * cell_size); each of them
\* is removed from the grid and no other particle is.
C5_DeletingPopulation ==
    (op = "step_simulation" /\ pre.params.edge_type.kind = "Deleting") =>
        /\ sim.metadata.num_particles
              = pre.metadata.num_particles - LeftWorld(pre, post_move.buckets)
        /\ Len(AllParticles(sim.buckets))
              = Len(AllParticles(post_move.buckets)) - LeftWorld(pre, post_move.buckets)
        /\ \A n \in 1..Len(AllParticles(sim.buckets)) :
              InWorld(sim, AllParticles(sim.buckets)[n].position)

\* the single-pair scenario: grid 2x2, cell_size 100, one type with base
\* attraction 1.0 and scale 1.0, Wrapping, particles at (50, 50) and (60, 50)
\* at rest
IsPairScenario(s) ==
    /\ s.buckets.size = <<2, 2>>
    /\ s.bucket_size = 100 * Unit
    /\ s.type_data.base_attractions = [size |-> <<1, 1>>, data |-> <<Unit>>]
    /\ s.type_data.attraction_scale = Unit
    /\ s.params.edge_type = Wrapping
    /\ AllParticles(s.buckets)
          = << NewParticle(<<50 * Unit, 50 * Unit>>, <<0, 0>>, 0),
               NewParticle(<<60 * Unit, 50 * Unit>>, <<0, 0>>, 0) >>

\* the squared distance of the first two particles
PairDistanceSquared(s) ==
    LET a == AllParticles(s.buckets)[1]
        b == AllParticles(s.buckets)[2]
    IN  (b.position[1] - a.position[1]) * (b.position[1] - a.position[1])
        + (b.position[2] - a.position[2]) * (b.position[2] - a.position[2])

\* both x-velocities are non-zero and of opposite sign
OppositeVelocities(s) ==
    LET a == AllParticles(s.buckets)[1]
        b == AllParticles(s.buckets)[2]
    IN  /\ a.velocity[1] # 0 /\ b.velocity[1] # 0
        /\ Sgn(a.velocity[1]) = -Sgn(b.velocity[1])

\* C10 as stated: after one step of the single-pair scenario both particles
\* have non-zero x-velocity of opposite sign and their distance has strictly
\* decreased.
C10_Original ==
    (op = "step_simulation" /\ IsPairScenario(pre)) =>
        /\ Len(AllParticles(sim.buckets)) = 2
        /\ OppositeVelocities(sim)
        /\ PairDistanceSquared(sim) < PairDistanceSquared(pre)

\* C10 amended: after one step of the single-pair scenario both particles
\* have non-zero x-velocity of opposite sign and their distance has strictly
\* increased: at r^2 = 100 = (2 * PARTICLE_RADIUS)^2 the close-range repulsion
\* applies, so the particle at (50, 50) moves left and the other right.
C10_PairRepels ==
    (op = "step_simulation" /\ IsPairScenario(pre)) =>
        /\ Len(AllParticles(sim.buckets)) = 2
        /\ OppositeVelocities(sim)
        /\ AllParticles(sim.buckets)[1].velocity[1] < 0
        /\ AllParticles(sim.buckets)[2].velocity[1] > 0
        /\ PairDistanceSquared(sim) > PairDistanceSquared(pre)

\* one step of the single-pair scenario has been taken
C10_Witness == op = "step_simulation" /\ IsPairScenario(pre)

-----------------------------------------------------------------------------
(* SpecCell: bucket_index_of_position applied to positions of a grid *)

\* the grids probed
ProbeGrids == {<<2, 2>>, <<2, 1>>, <<1, 3>>}

\* the coordinates probed: around 0, around every cell edge, far outside
ProbeCoordinates ==
    {-250 * Unit, -100 * Unit, -1, 0, 1, 100 * Unit - 1, 100 * Unit, 100 * Unit + 1,
     200 * Unit - 1, 200 * Unit, 200 * Unit + 1, 300 * Unit - 1, 300 * Unit,
     450 * Unit}

InitCell ==
    /\ \E size \in ProbeGrids, x \in ProbeCoordinates, y \in ProbeCoordinates :
          probe = [size |-> size, position |-> <<x, y>>, result |-> None, done |-> FALSE]
    /\ op = "new"
    /\ sim = NoSim /\ pre = NoSim /\ post_move = NoSim /\ nsteps = 0
    /\ type_data = NoSim
    /\ NoProto

\* the simulation the probe is made on
ProbeSimulation ==
    NewSimulation(BUCKET_SIZE, probe.size,
                  [edge_type |-> Wrapping, prevent_particle_ejecting |-> TRUE],
                  DefaultMetadata,
                  new_from_fn(1, Unit, [index \in Indices(<<1, 1>>) |-> Unit]))

\* ParticleSimulation::bucket_index_of_position
CellProbe ==
    /\ ~probe.done
    /\ probe' = [probe EXCEPT
                   !.result = bucket_index_of_position(ProbeSimulation, probe.position),
                   !.done = TRUE]
    /\ op' = "bucket_index_of_position"
    /\ UNCHANGED <<sim, pre, post_move, nsteps, type_data, proto_vars>>

NextCell == CellProbe

SpecCell == InitCell /\ [][NextCell]_vars

\* the cell whose half-open square [c * s, (c + 1) * s) holds the coordinate
FloorCell(x, s, n) == CHOOSE c \in 0..(n - 1) : c * s <= x /\ x < (c + 1) * s

\* C8: bucket_index_of_position returns (floor(x / s), floor(y / s)) when
\* 0 <= x < W * s and 0 <= y < H * s and none in every other case, also when
\* only one coordinate is negative or only one is beyond the world.
C8_CellOf ==
    probe.done =>
        LET x == probe.position[1]
            y == probe.position[2]
            W == probe.size[1]
            H == probe.size[2]
        IN  IF 0 <= x /\ x < W * BUCKET_SIZE /\ 0 <= y /\ y < H * BUCKET_SIZE
            THEN probe.result = <<FloorCell(x, BUCKET_SIZE, W), FloorCell(y, BUCKET_SIZE, H)>>
            ELSE probe.result = None

\* a position with a single negative coordinate was probed and got none
C8_Witness ==
    /\ probe.done
    /\ probe.result = None
    /\ probe.position[1] < 0
    /\ probe.position[2] >= 0 /\ probe.position[2] < probe.size[2] * BUCKET_SIZE

-----------------------------------------------------------------------------
(* SpecProto: the simulation thread and the UI thread of main.rs, each with *)
(* its own ParticleSimulation, exchanging whole snapshots over two queues   *)

\* the largest update_id explored (the program stops at usize::MAX)
MaxUpdateId == 2

\* the largest number of snapshots in flight in one queue (unbounded in mpsc)
MaxQueue == 2

\* the number of particles "Fill to Density" fills up to (area * density)
ParticleCount == 2

ProtoGrid == <<1, 1>>

\* the largest number of edits in one UI frame
MaxEdits == 1

\* the largest number of steps the simulation thread takes
MaxWorkerSteps == 1

\* the position add_random_particles is taken to draw for its k-th particle
ProtoPosition(k) == <<(10 + 20 * k) * Unit, 50 * Unit>>

\* the edge types the UI selects among
ProtoEdgeTypes == {Wrapping, Deleting}

\* the value random_range(-1.0..=1.0) is taken to yield in the protocol
ProtoClosures(n) == {[index \in Indices(<<n, n>>) |-> v] : v \in {Unit}}

ProtoScales == {Unit, 2 * Unit}

\* the draws of add_random_particles(count) on s
ParticleDraws(s, count) ==
    {[k \in 1..count |-> NewParticle(ProtoPosition(k), <<0, 0>>, typ[k])] :
        typ \in [1..count -> 0..(num_types(s.type_data) - 1)]}

\* the draws of randomize_particles_above_type(n): one type for every particle
TypeDraws(s, n) == [DOMAIN s.buckets.data -> [1..ParticleCount -> 0..(n - 1)]]

\* main.rs, every receive, with `>` for its `>=`
receive_newer_only(local, snapshot) ==
    IF snapshot.metadata.update_id > local.metadata.update_id
    THEN snapshot ELSE local

\* a receive that takes every snapshot
receive_always(local, snapshot) == snapshot

\* main.rs, every receive: the local copy after snapshot has arrived
receive(local, snapshot) ==
    IF snapshot.metadata.update_id >= local.metadata.update_id
    THEN snapshot ELSE local

\* the UI publish without its increment
next_update_id_stale(update_id) == update_id

\* the UI publish counting down
next_update_id_backwards(update_id) == update_id - 1

\* main.rs, the UI publish: update_id.checked_add(1)
next_update_id(update_id) == update_id + 1

\* simulation_from_size, with the particles drawn by fill_simulation_with_particles
simulation_from_size(size, td, particles) ==
    add_random_particles(
        clear_particles(
            NewSimulation(BUCKET_SIZE, size,
                          [edge_type |-> Wrapping, prevent_particle_ejecting |-> TRUE],
                          DefaultMetadata, td)),
        particles)

InitProto ==
    /\ \E n \in TypeCounts :
          \E f \in ProtoClosures(n) :
             LET td == new_random(n, Unit, f)
                 empty == simulation_from_size(ProtoGrid, td, <<>>)
             IN  \E particles \in ParticleDraws(empty, ParticleCount) :
                    simulation = simulation_from_size(ProtoGrid, td, particles)
    /\ simulation_buffer = simulation
    /\ user_input_rx = <<>> /\ simulation_rx = <<>>
    /\ worker_pc = "recv" /\ ui_pc = "try_recv" /\ ui_line = 0 /\ updated = FALSE
    /\ edits = 0
    /\ delivery = [to |-> "none", update_id |-> 0, prior |-> 0]
    /\ delivered = [worker |-> {}, ui |-> {}]
    /\ published = <<>>
    /\ op = "new"
    /\ nsteps = 0
    /\ sim = NoSim /\ pre = NoSim /\ post_move = NoSim
    /\ probe = NoSim /\ type_data = NoSim

ProtoFrame == UNCHANGED <<sim, post_move, probe, type_data>>

UIFrame == UNCHANGED <<simulation_buffer, simulation_rx, ui_pc, ui_line, updated,
                       edits, published>>

WorkerFrame == UNCHANGED <<simulation, user_input_rx, worker_pc, nsteps>>

\* the step accounting with a decrement in either branch
settle_steps_decrementing(s) == [s EXCEPT !.metadata.steps = @ - 1]

\* the step accounting leaving the owed steps as they are
settle_steps_kept(s) == s

\* main.rs 128-132: the owed steps after a step
settle_steps(s) ==
    [s EXCEPT !.metadata.steps = IF s.metadata.is_active THEN 0 ELSE @ - 1]

\* the simulation thread takes the oldest snapshot of user_input_rx
WorkerTake(next_pc, name) ==
    /\ Len(user_input_rx) > 0
    /\ simulation' = receive(simulation, user_input_rx[1])
    /\ user_input_rx' = SubSeq(user_input_rx, 2, Len(user_input_rx))
    /\ delivery' = [to |-> "worker",
                    update_id |-> user_input_rx[1].metadata.update_id,
                    prior |-> simulation.metadata.update_id]
    /\ delivered' = [delivered EXCEPT
                       !.worker = @ \cup {user_input_rx[1].metadata.update_id}]
    /\ worker_pc' = next_pc
    /\ op' = name
    /\ UNCHANGED <<nsteps, pre>>
    /\ UIFrame /\ ProtoFrame

\* main.rs 85-96: paused with no step owed, the thread blocks in recv()
WorkerRecv ==
    /\ worker_pc = "recv"
    /\ ~simulation.metadata.is_active /\ simulation.metadata.steps = 0
    /\ WorkerTake("try_recv", "WorkerRecv")

\* main.rs 85: running or with a step owed, the thread does not block
WorkerSkipRecv ==
    /\ worker_pc = "recv"
    /\ simulation.metadata.is_active \/ simulation.metadata.steps > 0
    /\ worker_pc' = "try_recv"
    /\ op' = "WorkerSkipRecv"
    /\ UNCHANGED <<simulation, user_input_rx, nsteps, delivery, delivered, pre>>
    /\ UIFrame /\ ProtoFrame

\* main.rs 98-104: one turn of the try_recv loop that finds a snapshot
WorkerTryRecv ==
    /\ worker_pc = "try_recv"
    /\ WorkerTake("try_recv", "WorkerTryRecv")

\* main.rs 105-108: the try_recv loop finds the queue empty
WorkerEmpty ==
    /\ worker_pc = "try_recv"
    /\ Len(user_input_rx) = 0
    /\ worker_pc' = "step"
    /\ op' = "WorkerEmpty"
    /\ UNCHANGED <<simulation, user_input_rx, nsteps, delivery, delivered, pre>>
    /\ UIFrame /\ ProtoFrame

\* main.rs 121-146: step, settle the owed steps and send a clone
WorkerStepWithin(bound) ==
    /\ worker_pc = "step"
    /\ simulation.metadata.is_active \/ simulation.metadata.steps > 0
    /\ nsteps < bound
    /\ Len(simulation_rx) < MaxQueue
    /\ \E jitter \in Jitters(simulation) :
          LET settled == settle_steps(step_simulation(simulation, jitter))
          IN  /\ simulation' = settled
              /\ simulation_rx' = Append(simulation_rx, settled)
    /\ nsteps' = nsteps + 1
    /\ worker_pc' = "recv"
    /\ op' = "WorkerStep"
    /\ UNCHANGED <<simulation_buffer, user_input_rx, ui_pc, ui_line, updated,
                   edits, delivery, delivered, published, pre>>
    /\ ProtoFrame

WorkerStep == WorkerStepWithin(MaxWorkerSteps)

\* the end of an iteration without a step, whatever the state
WorkerSkipStep ==
    /\ worker_pc = "step"
    /\ worker_pc' = "recv"
    /\ op' = "WorkerIdle"
    /\ UNCHANGED <<simulation, user_input_rx, nsteps, delivery, delivered, pre>>
    /\ UIFrame /\ ProtoFrame

\* main.rs 121: paused with no step owed, nothing is done and nothing is sent
WorkerIdle ==
    /\ worker_pc = "step"
    /\ ~(simulation.metadata.is_active \/ simulation.metadata.steps > 0)
    /\ worker_pc' = "recv"
    /\ op' = "WorkerIdle"
    /\ UNCHANGED <<simulation, user_input_rx, nsteps, delivery, delivered, pre>>
    /\ UIFrame /\ ProtoFrame

\* main.rs 212-220: one turn of the UI's try_recv loop that finds a snapshot
UIReceive ==
    /\ ui_pc = "try_recv"
    /\ Len(simulation_rx) > 0
    /\ simulation_buffer' = receive(simulation_buffer, simulation_rx[1])
    /\ simulation_rx' = SubSeq(simulation_rx, 2, Len(simulation_rx))
    /\ delivery' = [to |-> "ui",
                    update_id |-> simulation_rx[1].metadata.update_id,
                    prior |-> simulation_buffer.metadata.update_id]
    /\ delivered' = [delivered EXCEPT
                       !.ui = @ \cup {simulation_rx[1].metadata.update_id}]
    /\ op' = "UIReceive"
    /\ UNCHANGED <<ui_pc, ui_line, updated, edits, published, pre>>
    /\ WorkerFrame /\ ProtoFrame

\* main.rs 222-233: the loop finds the queue empty; the frame's edits begin
UIEmpty ==
    /\ ui_pc = "try_recv"
    /\ Len(simulation_rx) = 0
    /\ ui_pc' = "edit"
    /\ ui_line' = 0
    /\ updated' = FALSE
    /\ edits' = 0
    /\ op' = "UIEmpty"
    /\ UNCHANGED <<simulation_buffer, simulation_rx, delivery, delivered, published,
                   pre>>
    /\ WorkerFrame /\ ProtoFrame

\* an edit of the frame at a line of main.rs: the edits of one frame act in
\* the order of their lines, each at most once, and set `updated`
Edit(line, name, buffer) ==
    /\ ui_pc = "edit"
    /\ ui_line < line
    /\ edits < MaxEdits
    /\ simulation_buffer.metadata.update_id < MaxUpdateId
    /\ simulation_buffer' = buffer
    /\ pre' = simulation_buffer
    /\ ui_line' = line
    /\ edits' = edits + 1
    /\ updated' = TRUE
    /\ op' = name
    /\ UNCHANGED <<simulation_rx, ui_pc, delivery, delivered, published>>
    /\ WorkerFrame /\ ProtoFrame

\* main.rs 343-350: the "Step" label is clicked
UIStep ==
    Edit(348, "UIStep", [simulation_buffer EXCEPT !.metadata.steps = @ + 1])

\* main.rs 402-405: "Clear" of the particles
UIClearParticles ==
    Edit(403, "clear_particles", clear_particles(simulation_buffer))

\* main.rs 407-416: "Fill to Density"
UIFill ==
    LET count == IF ParticleCount > simulation_buffer.metadata.num_particles
                 THEN ParticleCount - simulation_buffer.metadata.num_particles
                 ELSE 0
    IN  \E particles \in ParticleDraws(simulation_buffer, count) :
           Edit(411, "add_random_particles",
                add_random_particles(simulation_buffer, particles))

\* main.rs 432-444: the number of types is edited: resize, then
\* randomize_particles_above_type
UIResize ==
    \E n \in TypeCounts \ {num_types(simulation_buffer.type_data)} :
       \E fresh \in ProtoClosures(n), draw \in TypeDraws(simulation_buffer, n) :
          Edit(436, "resize",
               randomize_particles_above_type(
                   [simulation_buffer EXCEPT !.type_data = resize(@, n, fresh)],
                   n, draw))

\* main.rs 458-468: the force scale is edited
UIRescale ==
    \E scale \in ProtoScales \ {attraction_scale(simulation_buffer.type_data)} :
       Edit(463, "rescale_attractions",
            [simulation_buffer EXCEPT !.type_data = rescale_attractions(@, scale)])

\* main.rs 513-525: an element of the attraction table is edited
UISetElement ==
    \E index \in Indices(simulation_buffer.type_data.base_attractions.size) :
       /\ MatrixGet(simulation_buffer.type_data.base_attractions, index) # -Unit
       /\ Edit(517, "set_attraction",
               [simulation_buffer EXCEPT !.type_data = set_attraction(@, index, -Unit)])

\* main.rs 548-555: "Randomize" of the table
UIRandomize ==
    \E f \in ProtoClosures(num_types(simulation_buffer.type_data)) :
       Edit(549, "new_random",
            [simulation_buffer EXCEPT !.type_data =
                new_random(num_types(@), attraction_scale(@), f)])

\* main.rs 557-565: "Clear" of the table
UIClearTable ==
    Edit(558, "new_from_fn",
         [simulation_buffer EXCEPT !.type_data =
             new_from_fn(num_types(@), attraction_scale(@),
                         [index \in Indices(<<num_types(@), num_types(@)>>) |-> 0])])

\* main.rs 574-598: another edge type is selected
UIEdgeType ==
    \E edge_type \in ProtoEdgeTypes \ {simulation_buffer.params.edge_type} :
       Edit(574, "edge_type", [simulation_buffer EXCEPT !.params.edge_type = edge_type])

\* main.rs 681-684: Shift + Space asks for one step
UIKeyStep ==
    Edit(684, "UIKeyStep", [simulation_buffer EXCEPT !.metadata.steps = @ + 1])

\* main.rs 685-691: Space pauses or resumes
UIPause ==
    Edit(691, "UIPause", [simulation_buffer EXCEPT !.metadata.is_active = ~@])

\* main.rs 698-709: a frame with an edit publishes the buffer under the next id
UIPublish ==
    /\ ui_pc = "edit"
    /\ updated
    /\ Len(user_input_rx) < MaxQueue
    /\ LET buffer == [simulation_buffer EXCEPT
                        !.metadata.update_id = next_update_id(@)]
       IN  /\ simulation_buffer' = buffer
           /\ user_input_rx' = Append(user_input_rx, buffer)
           /\ published' = Append(published, buffer.metadata.update_id)
    /\ ui_pc' = "try_recv"
    /\ ui_line' = 0
    /\ updated' = FALSE
    /\ edits' = 0
    /\ pre' = NoSim
    /\ op' = "UIPublish"
    /\ UNCHANGED <<simulation, simulation_rx, worker_pc, nsteps, delivery, delivered>>
    /\ ProtoFrame

\* main.rs 698: a frame without an edit publishes nothing
UIFrameEnd ==
    /\ ui_pc = "edit"
    /\ ~updated
    /\ ui_pc' = "try_recv"
    /\ op' = "UIFrameEnd"
    /\ UNCHANGED <<pre, simulation_buffer, simulation_rx, ui_line, updated, edits,
                   delivery, delivered, published>>
    /\ WorkerFrame /\ ProtoFrame

NextProto ==
    \/ WorkerRecv \/ WorkerSkipRecv \/ WorkerTryRecv \/ WorkerEmpty
    \/ WorkerStep \/ WorkerIdle
    \/ UIReceive \/ UIEmpty
    \/ UIStep \/ UIClearParticles \/ UIFill \/ UIResize \/ UIRescale
    \/ UISetElement \/ UIRandomize \/ UIClearTable \/ UIEdgeType
    \/ UIKeyStep \/ UIPause
    \/ UIPublish \/ UIFrameEnd

SpecProto == InitProto /\ [][NextProto]_vars

\* the largest element of a non-empty set of numbers
MaxOf(S) == CHOOSE m \in S : \A x \in S : x <= m

\* the set of the elements of a sequence
Range(q) == {q[k] : k \in 1..Len(q)}

\* a step in which an endpoint takes snapshot off its queue treats it as the
\* receive rule says: replaced as a whole iff the snapshot's id >= the local id
Accepts(local, snapshot, after) ==
    /\ snapshot.metadata.update_id >= local.metadata.update_id => after = snapshot
    /\ snapshot.metadata.update_id < local.metadata.update_id => after = local
    /\ after.metadata.update_id =
          MaxOf({local.metadata.update_id, snapshot.metadata.update_id})

ReceiveStep ==
    /\ Len(user_input_rx') < Len(user_input_rx) =>
          Accepts(simulation, user_input_rx[1], simulation')
    /\ Len(simulation_rx') < Len(simulation_rx) =>
          Accepts(simulation_buffer, simulation_rx[1], simulation_buffer')

\* the local id of each endpoint is the largest of its first id (0), the ids
\* delivered to it and, at the UI, the ids it gave its own publications
LocalIsMax ==
    /\ simulation.metadata.update_id = MaxOf({0} \cup delivered.worker)
    /\ simulation_buffer.metadata.update_id =
          MaxOf({0} \cup delivered.ui \cup Range(published))

\* C2: on every receive (the thread's blocking recv, the thread's try_recv
\* loop, the UI's try_recv loop) the endpoint replaces its whole local copy
\* iff the snapshot's update_id >= the local update_id and otherwise drops
\* it and keeps the local copy; so the local update_id is the maximum of the
\* prior local id and all delivered ids.
C2_MonotoneAcceptance == [][ReceiveStep]_vars /\ []LocalIsMax

\* the UI has just dropped a snapshot older than its buffer, after at least
\* one snapshot was accepted by the simulation thread
C2_Witness ==
    /\ op = "UIReceive"
    /\ delivery.to = "ui"
    /\ delivery.update_id < delivery.prior
    /\ simulation_buffer.metadata.update_id = delivery.prior
    /\ delivered.worker # {}

PublishStep ==
    Len(published') > Len(published) =>
        /\ simulation_buffer'.metadata.update_id > simulation_buffer.metadata.update_id
        /\ user_input_rx'[Len(user_input_rx')] = simulation_buffer'
        /\ published'[Len(published')] = simulation_buffer'.metadata.update_id

IdsNeverDecrease ==
    /\ simulation'.metadata.update_id >= simulation.metadata.update_id
    /\ simulation_buffer'.metadata.update_id >= simulation_buffer.metadata.update_id

StrictlyIncreasing(q) == \A i, j \in 1..Len(q) : i < j => q[i] < q[j]

\* C3: at each endpoint the local update_id never decreases over any
\* interleaving of receives, steps and edits; a UI frame with an edit
\* increments the buffer's update_id before it publishes, so the published
\* snapshots carry strictly increasing update_ids.
C3_UpdateIdMonotone ==
    [][IdsNeverDecrease /\ PublishStep]_vars /\ []StrictlyIncreasing(published)

\* the UI has just published for the second time and the simulation thread
\* has stepped and received in between
C3_Witness ==
    /\ op = "UIPublish"
    /\ Len(published) >= 2
    /\ nsteps > 0
    /\ delivered.worker # {}

\* every particle of s has a type the table of s has
TypesInRange(s) ==
    \A k \in DOMAIN s.buckets.data :
       \A i \in 1..Len(s.buckets.data[k]) :
          s.buckets.data[k][i].typ < num_types(s.type_data)

\* a resize leaves every particle whose type the new table has as it was
ResizeKeepsLowTypes ==
    op = "resize" =>
        /\ DOMAIN simulation_buffer.buckets.data = DOMAIN pre.buckets.data
        /\ \A k \in DOMAIN pre.buckets.data :
              /\ Len(simulation_buffer.buckets.data[k]) = Len(pre.buckets.data[k])
              /\ \A i \in 1..Len(pre.buckets.data[k]) :
                    pre.buckets.data[k][i].typ < num_types(simulation_buffer.type_data)
                    => simulation_buffer.buckets.data[k][i] = pre.buckets.data[k][i]

\* C9: in every reachable state of either endpoint, and in every snapshot in
\* flight, every stored particle's species index is < num_types (after
\* add_random_particles, after the UI's resize with
\* randomize_particles_above_type, after Randomize and Clear of the table and
\* after any snapshot exchange); randomize_particles_above_type(n') leaves
\* the particles with species < n' unchanged.
C9_SpeciesInRange ==
    /\ TypesInRange(simulation)
    /\ TypesInRange(simulation_buffer)
    /\ \A k \in 1..Len(user_input_rx) : TypesInRange(user_input_rx[k])
    /\ \A k \in 1..Len(simulation_rx) : TypesInRange(simulation_rx[k])
    /\ ResizeKeepsLowTypes

\* the UI has just shrunk the table under a particle whose type the new table
\* lacks and a particle whose type it has
C9_Witness ==
    /\ op = "resize"
    /\ \E k \in DOMAIN pre.buckets.data :
          \E i, j \in 1..Len(pre.buckets.data[k]) :
             /\ pre.buckets.data[k][i].typ >= num_types(simulation_buffer.type_data)
             /\ pre.buckets.data[k][j].typ < num_types(simulation_buffer.type_data)

-----------------------------------------------------------------------------
(* SpecPair: update_impulse_with_particle applied to one pair of particles *)

\* other.position - self.position for the pairs explored: beyond, at and
\* within the cutoff, at and within 2 * PARTICLE_RADIUS, at and within 1, and
\* equal positions
PairDeltas ==
    {<<100 * Unit, 1>>, <<100 * Unit, 0>>, <<60 * Unit, 80 * Unit>>, <<-99 * Unit, 0>>,
     <<20 * Unit, 0>>, <<-20 * Unit, 0>>, <<0, 10 * Unit + 1>>,
     <<10 * Unit, 0>>, <<-6 * Unit, 8 * Unit>>, <<3 * Unit, -4 * Unit>>,
     <<Unit, 0>>, <<0, -Unit>>, <<Unit - 1, 0>>, <<-70, 70>>, <<50, 0>>,
     <<-30, -40>>, <<0, 1>>, <<0, 0>>}

\* the tables explored: two types, built by new_from_fn from a closure and by
\* element edits of the cleared table
PairClosures ==
    {[index \in Indices(<<2, 2>>) |->
         IF index = <<0, 1>> THEN a ELSE IF index = <<1, 0>> THEN b ELSE c] :
       a \in {Unit, -Unit}, b \in {Unit, -Unit}, c \in {0, Unit}}

PairTables ==
    {new_from_fn(2, scale, f) : scale \in {Unit, 2 * Unit}, f \in PairClosures}
    \cup {set_attraction(
              set_attraction(new_from_fn(2, Unit, [index \in Indices(<<2, 2>>) |-> 0]),
                             <<0, 1>>, a),
              <<1, 0>>, b) : a \in {Unit, -Unit}, b \in {Unit, -Unit}}

InitPair ==
    /\ type_data \in PairTables
    /\ \E delta \in PairDeltas, typ \in 0..1, other_typ \in 0..1, prevent \in BOOLEAN :
          \E rv \in (IF delta = <<0, 0>> THEN RandomVectors \X RandomVectors
                     ELSE {<< <<0, 0>>, <<0, 0>> >>}) :
             probe = [self  |-> NewParticle(<<50 * Unit, 50 * Unit>>, <<0, 0>>, typ),
                      other |-> NewParticle(<<50 * Unit + delta[1], 50 * Unit + delta[2]>>,
                                            <<0, 0>>, other_typ),
                      params |-> [edge_type |-> Wrapping,
                                  prevent_particle_ejecting |-> prevent],
                      random_vector |-> rv,
                      impulse |-> <<0, 0>>, other_impulse |-> <<0, 0>>,
                      done |-> FALSE]
    /\ op = "new"
    /\ sim = NoSim /\ pre = NoSim /\ post_move = NoSim /\ nsteps = 0
    /\ NoProto

\* move_particles for a bucket of two: each particle's impulse is updated
\* with the other particle
PairImpulse ==
    /\ ~probe.done
    /\ probe' = [probe EXCEPT
                   !.impulse = update_impulse_with_particle(
                                   probe.self, probe.other, type_data, probe.params,
                                   BUCKET_SIZE * BUCKET_SIZE, probe.random_vector[1]),
                   !.other_impulse = update_impulse_with_particle(
                                   probe.other, probe.self, type_data, probe.params,
                                   BUCKET_SIZE * BUCKET_SIZE, probe.random_vector[2]),
                   !.done = TRUE]
    /\ op' = "update_impulse_with_particle"
    /\ UNCHANGED <<sim, pre, post_move, nsteps, type_data, proto_vars>>

NextPair == PairImpulse

SpecPair == InitPair /\ [][NextPair]_vars

\* the asymmetric pair: A of type 0 at (50, 50), B of type 1 at (70, 50), the
\* attraction read for A from B +1 and for B from A -1
IsAsymmetricPair ==
    /\ probe.done
    /\ probe.self.typ = 0 /\ probe.other.typ = 1
    /\ probe.self.position = <<50 * Unit, 50 * Unit>>
    /\ probe.other.position = <<70 * Unit, 50 * Unit>>
    /\ MatrixGet(type_data.scaled_attractions, <<0, 1>>) = Unit
    /\ MatrixGet(type_data.scaled_attractions, <<1, 0>>) = -Unit

\* C11 as stated: in the asymmetric pair scenario A's impulse has positive x
\* and B's impulse has negative x.
C11_Original ==
    IsAsymmetricPair => probe.impulse[1] > 0 /\ probe.other_impulse[1] < 0

\* C11 amended: in the asymmetric pair scenario A's impulse has positive x
\* (towards B) and B's impulse has positive x too (away from A): B reads the
\* attraction -1 and its delta to A is negative.
C11_AsymmetricPair ==
    IsAsymmetricPair => probe.impulse[1] > 0 /\ probe.other_impulse[1] > 0

\* the asymmetric pair has been evaluated
C11_Witness == IsAsymmetricPair /\ probe.impulse # <<0, 0>>

-----------------------------------------------------------------------------
(* SpecEdge: step_simulation on a single particle near the world's edges *)

EdgeGrids == {<<2, 1>>, <<2, 2>>}

\* Bouncing with the UI's initial values and with multiplier 0, pushback 2.5
EdgeEdgeTypes ==
    {Wrapping, Deleting, Bouncing(Unit, (5 * Unit) \div 2), Bouncing(0, (5 * Unit) \div 2)}

\* coordinates at, next to and away from the edges of the grids
EdgeXs == {0, 50, 50 * Unit, 100 * Unit - 10, 199 * Unit, 200 * Unit - 10}

EdgeYs == {0, 50 * Unit, 100 * Unit - 10, 199 * Unit}

EdgeVelocities ==
    {-3 * Unit, -Unit, 0, Unit, 2 * Unit, 3 * Unit} \X {-3 * Unit, 0, 2 * Unit}

InitEdge ==
    /\ \E size \in EdgeGrids, edge_type \in EdgeEdgeTypes,
          x \in EdgeXs, y \in EdgeYs, velocity \in EdgeVelocities :
          /\ y < size[2] * BUCKET_SIZE
          /\ sim = add_random_particles(
                      NewSimulation(BUCKET_SIZE, size,
                                    [edge_type |-> edge_type,
                                     prevent_particle_ejecting |-> TRUE],
                                    DefaultMetadata,
                                    new_from_fn(1, Unit, [index \in Indices(<<1, 1>>) |-> Unit])),
                      <<NewParticle(<<x, y>>, velocity, 0)>>)
    /\ pre = sim
    /\ post_move = [buckets |-> sim.buckets, impulses |-> sim.impulses]
    /\ op = "new"
    /\ nsteps = 0
    /\ probe = NoSim
    /\ type_data = NoSim
    /\ NoProto

SpecEdge == InitEdge /\ [][NextSim]_vars

\* the wrapping-crossing scenario: grid 2x1, cell_size 100, Wrapping, a
\* single particle at (99.9, 50) with velocity (+1, 0)
IsCrossingScenario(s) ==
    /\ s.buckets.size = <<2, 1>>
    /\ s.bucket_size = 100 * Unit
    /\ s.params.edge_type = Wrapping
    /\ AllParticles(s.buckets) = <<NewParticle(<<100 * Unit - 10, 50 * Unit>>, <<Unit, 0>>, 0)>>

\* C12 as stated: after one step of the wrapping-crossing scenario the
\* particle's x-position lies in [0, 1) and it is stored in cell (0, 0).
C12_Original ==
    (op = "step_simulation" /\ IsCrossingScenario(pre)) =>
        /\ Len(MatrixGet(sim.buckets, <<0, 0>>)) = 1
        /\ MatrixGet(sim.buckets, <<0, 0>>)[1].position[1] >= 0
        /\ MatrixGet(sim.buckets, <<0, 0>>)[1].position[1] < Unit

\* C12 amended: after one step of the wrapping-crossing scenario the particle
\* has moved by half its velocity to x = 100.4, inside the world of width
\* 200, and is stored in cell (1, 0); nothing wraps.
C12_CrossingStaysInWorld ==
    (op = "step_simulation" /\ IsCrossingScenario(pre)) =>
        /\ Len(MatrixGet(sim.buckets, <<0, 0>>)) = 0
        /\ Len(MatrixGet(sim.buckets, <<1, 0>>)) = 1
        /\ MatrixGet(sim.buckets, <<1, 0>>)[1].position = <<100 * Unit + 40, 50 * Unit>>

\* one step of the wrapping-crossing scenario has been taken
C12_Witness ==
    /\ op = "step_simulation" /\ IsCrossingScenario(pre)
    /\ sim.metadata.num_particles = 1

\* the coordinate clamped to [0, extent - 1e-5]
Clamped(x, extent) ==
    IF x < 0 THEN 0 ELSE IF x > extent - EPSILON THEN extent - EPSILON ELSE x

\* the velocity Bouncing gives on an axis: unchanged when the coordinate is
\* inside [0, extent), +(|v| * multiplier + pushback) at the lower edge and
\* -(|v| * multiplier + pushback) at the upper edge
Bounced(x, v, extent, edge_type) ==
    IF x < 0 THEN RMul(Abs(v), edge_type.multiplier) + edge_type.pushback
    ELSE IF x >= extent THEN -(RMul(Abs(v), edge_type.multiplier) + edge_type.pushback)
    ELSE v

\* C13: under Bouncing{multiplier, pushback} a particle whose position after
\* integration is outside the world ends the step with its position clamped
\* to [0, W*s - 1e-5] x [0, H*s - 1e-5] and, on each clamped axis, the
\* velocity sign * (|v| * multiplier + pushback), sign +1 at the lower edge
\* and -1 at the upper edge; the other axis keeps its velocity.
C13_BouncingPolicy ==
    (/\ op = "step_simulation"
     /\ pre.params.edge_type.kind = "Bouncing"
     /\ Len(AllParticles(post_move.buckets)) = 1
     /\ ~InWorld(pre, AllParticles(post_move.buckets)[1].position)) =>
        LET moved == AllParticles(post_move.buckets)[1]
            size == SimSize(pre)
        IN  /\ Len(AllParticles(sim.buckets)) = 1
            /\ AllParticles(sim.buckets)[1].position
                  = <<Clamped(moved.position[1], size[1]), Clamped(moved.position[2], size[2])>>
            /\ AllParticles(sim.buckets)[1].velocity
                  = <<Bounced(moved.position[1], moved.velocity[1], size[1],
                              pre.params.edge_type),
                      Bounced(moved.position[2], moved.velocity[2], size[2],
                              pre.params.edge_type)>>

-----------------------------------------------------------------------------
(* SpecPair: the force law *)

\* d = q - p as update_impulse_with_particle takes it for p = probe.self
PairDelta ==
    IF probe.self.position = probe.other.position
    THEN probe.random_vector[1]
    ELSE <<probe.other.position[1] - probe.self.position[1],
           probe.other.position[2] - probe.self.position[2]>>

\* r^2, in parts of 1/Unit^2
PairR2 == PairDelta[1] * PairDelta[1] + PairDelta[2] * PairDelta[2]

\* p is evaluated with prevent_particle_ejecting and 0 < r^2 < 1
IsShortRange ==
    /\ probe.done
    /\ probe.params.prevent_particle_ejecting
    /\ 0 < PairR2 /\ PairR2 < Unit * Unit

\* m2 <= (PARTICLE_RADIUS / r)^2 for a squared magnitude m2 in parts of
\* 1/Unit^2, that is m2 * r^2 <= PARTICLE_RADIUS^2, computed without a number
\* beyond 32 bits: with c = PARTICLE_RADIUS^2 in whole units and
\* m2 = c * q + t, it is q * r2 + ceil(t * r2 / c) <= Unit^4
AtMostRadiusOverR(m2) ==
    LET c == (PARTICLE_RADIUS \div Unit) * (PARTICLE_RADIUS \div Unit)
    IN  (m2 \div c) * PairR2 + ((m2 % c) * PairR2 + c - 1) \div c
            <= Unit * Unit * Unit * Unit

\* C14: with prevent_particle_ejecting, for every pair with 0 < r^2 < 1 the
\* impulse contributed to p has magnitude at most PARTICLE_RADIUS / r.
C14_RepulsionBound ==
    IsShortRange =>
        AtMostRadiusOverR(probe.impulse[1] * probe.impulse[1]
                          + probe.impulse[2] * probe.impulse[2])

\* a pair at distance 0.01 has been evaluated: the impulse has magnitude
\* PARTICLE_RADIUS, far below PARTICLE_RADIUS / r
C14_Witness ==
    /\ IsShortRange
    /\ PairDelta = <<0, 1>>
    /\ probe.impulse = <<0, PARTICLE_RADIUS>>

\* the contribution to p the force law gives for d and r^2
LawContribution ==
    LET d == PairDelta
        r2 == PairR2
        scaled == MatrixGet(type_data.scaled_attractions,
                            <<probe.self.typ, probe.other.typ>>)
    IN  IF r2 > BUCKET_SIZE * BUCKET_SIZE THEN <<0, 0>>
        ELSE IF r2 > 4 * PARTICLE_RADIUS * PARTICLE_RADIUS
        THEN <<RoundDiv(d[1] * scaled * Unit, r2), RoundDiv(d[2] * scaled * Unit, r2)>>
        ELSE IF probe.params.prevent_particle_ejecting /\ r2 < Unit * Unit
        THEN <<RoundDiv(d[1] * PARTICLE_RADIUS, Sqrt(r2)),
               RoundDiv(d[2] * PARTICLE_RADIUS, Sqrt(r2))>>
        ELSE <<RoundDiv(-(d[1] * PARTICLE_RADIUS * Unit), r2),
               RoundDiv(-(d[2] * PARTICLE_RADIUS * Unit), r2)>>

\* C18: the contribution to p is nothing if r2 > cutoff^2; otherwise a * d
\* with a = scaled_attractions[p.species, q.species] / r2 if
\* r2 > (2 * PARTICLE_RADIUS)^2; otherwise a = PARTICLE_RADIUS / sqrt(r2) if
\* prevent_particle_ejecting and r2 < 1; otherwise a = -PARTICLE_RADIUS / r2.
\* So r2 = cutoff^2 still contributes, r2 = 100 takes the close-range branch
\* and r2 = 1 takes the close-range branch whatever the flag.
C18_ForceLaw ==
    probe.done =>
        /\ probe.impulse = LawContribution
        /\ (PairR2 = BUCKET_SIZE * BUCKET_SIZE
               /\ MatrixGet(type_data.scaled_attractions,
                            <<probe.self.typ, probe.other.typ>>) # 0)
              => probe.impulse # <<0, 0>>
        /\ PairR2 \in {4 * PARTICLE_RADIUS * PARTICLE_RADIUS, Unit * Unit}
              => probe.impulse = <<RoundDiv(-(PairDelta[1] * PARTICLE_RADIUS * Unit), PairR2),
                                   RoundDiv(-(PairDelta[2] * PARTICLE_RADIUS * Unit), PairR2)>>

\* a pair at the cutoff distance has been evaluated and contributed
C18_Witness ==
    /\ probe.done
    /\ PairDelta = <<100 * Unit, 0>>
    /\ probe.impulse # <<0, 0>>

\* C19: with prevent_particle_ejecting and 0 < r^2 < 1 the impulse
\* contributed to p by q points away from q: its component along d = q - p
\* is negative.
C19_ShortRangeRepels ==
    IsShortRange =>
        probe.impulse[1] * PairDelta[1] + probe.impulse[2] * PairDelta[2] < 0

-----------------------------------------------------------------------------
(* SpecProto: the simulation thread's loop *)

\* every cell of the impulse scratch of s is empty
ImpulsesEmpty(s) == \A k \in DOMAIN s.impulses.data : Len(s.impulses.data[k]) = 0

\* a snapshot is sent exactly in the steps that execute step_simulation, one
\* per step, and it is the thread's state after the step: the stepped state
\* with the owed steps settled
SendStep ==
    /\ Len(simulation_rx') > Len(simulation_rx) <=> nsteps' = nsteps + 1
    /\ Len(simulation_rx') > Len(simulation_rx) =>
          /\ Len(simulation_rx') = Len(simulation_rx) + 1
          /\ simulation_rx'[Len(simulation_rx')] = simulation'
          /\ \E jitter \in Jitters(simulation) :
                [simulation' EXCEPT !.metadata.steps = simulation.metadata.steps]
                    = step_simulation(simulation, jitter)
    /\ (worker_pc = "step" /\ worker_pc' = "recv" /\ nsteps' = nsteps)
          => simulation_rx' = simulation_rx

\* C15: every snapshot sent on the queue to the UI is the thread's state right
\* after a completed step_simulation (impulses evaluated, particles moved and
\* re-bucketed, every cell of the impulse scratch empty); the thread sends
\* exactly one snapshot per executed step and none in an iteration without a
\* step.
C15_BetweenStepSnapshots ==
    [][SendStep]_vars /\ [](\A k \in 1..Len(simulation_rx) : ImpulsesEmpty(simulation_rx[k]))

\* the thread has just stepped a simulation with particles and sent it
C15_Witness ==
    /\ op = "WorkerStep"
    /\ Len(simulation_rx) > 0
    /\ simulation_rx[Len(simulation_rx)] = simulation
    /\ simulation.metadata.num_particles > 0
    /\ delivered.worker # {}

\* the thread is about to execute step_simulation (main.rs 121)
StepDue ==
    /\ worker_pc = "step"
    /\ simulation.metadata.is_active \/ simulation.metadata.steps > 0

\* the thread cannot go on: no receive, no skip and no step is possible
Suspended ==
    /\ ~StepDue
    /\ ~ENABLED (WorkerRecv \/ WorkerSkipRecv \/ WorkerTryRecv \/ WorkerEmpty \/ WorkerIdle)

\* the thread waits in recv(): paused, no step owed, nothing in the queue
WaitsInRecv ==
    /\ worker_pc = "recv"
    /\ ~simulation.metadata.is_active /\ simulation.metadata.steps = 0
    /\ Len(user_input_rx) = 0

WorkerLoopStep ==
    \* a snapshot is taken at the top of the iteration only if paused with no step owed
    /\ (Len(user_input_rx') < Len(user_input_rx) /\ worker_pc = "recv") =>
          ~simulation.metadata.is_active /\ simulation.metadata.steps = 0
    \* every other snapshot is taken in the try_recv loop, left only when the queue is empty
    /\ Len(user_input_rx') < Len(user_input_rx) => worker_pc \in {"recv", "try_recv"}
    /\ (worker_pc = "try_recv" /\ worker_pc' # "try_recv") =>
          Len(user_input_rx) = 0 /\ worker_pc' = "step" /\ simulation' = simulation
    \* after draining, a step is executed iff running or a step is owed
    /\ (worker_pc = "step" /\ worker_pc' # "step") =>
          (nsteps' = nsteps + 1
             <=> (simulation.metadata.is_active \/ simulation.metadata.steps > 0))
    /\ nsteps' # nsteps => worker_pc = "step"

\* C16: the thread blocks on the queue of edits only in an iteration that
\* starts paused (is_active false) with no step owed; every other receive is
\* non-blocking and drains the queue to empty; the thread executes a step in an
\* iteration iff, after draining, is_active is true or a step is owed.
C16_WorkerSuspension ==
    [][WorkerLoopStep]_vars /\ [](Suspended => WaitsInRecv)

\* the thread, paused by an edit it received, waits in recv() after having stepped
C16_Witness ==
    /\ WaitsInRecv
    /\ Suspended
    /\ nsteps > 0
    /\ delivered.worker # {}

-----------------------------------------------------------------------------
(* SpecMatrix: a matrix built by from_fn and read through Index *)

MaxDim == 3

MatrixSizes == (1..MaxDim) \X (1..MaxDim)

\* the closures given to from_fn: one that tells every index from every other,
\* and the first coordinate
MatrixClosures(size) ==
    {[index \in Indices(size) |-> index[1] * (MaxDim + 1) + index[2]],
     [index \in Indices(size) |-> index[1]]}

InitMatrix ==
    /\ \E size \in MatrixSizes :
          \E index \in Indices(size), function \in MatrixClosures(size) :
             probe = [size |-> size, function |-> function, index |-> index,
                      matrix |-> None, result |-> None, built |-> FALSE, done |-> FALSE]
    /\ op = "new"
    /\ sim = NoSim /\ pre = NoSim /\ post_move = NoSim /\ nsteps = 0
    /\ type_data = NoSim
    /\ NoProto

\* Matrix::from_fn(size, function)
MatrixBuild ==
    /\ ~probe.built
    /\ probe' = [probe EXCEPT !.matrix = from_fn(probe.size, probe.function),
                               !.built = TRUE]
    /\ op' = "from_fn"
    /\ UNCHANGED <<sim, pre, post_move, nsteps, type_data, proto_vars>>

\* matrix[index]
MatrixRead ==
    /\ probe.built /\ ~probe.done
    /\ check_index_bounds(probe.matrix, probe.index)
    /\ probe' = [probe EXCEPT !.result = MatrixGet(probe.matrix, probe.index),
                               !.done = TRUE]
    /\ op' = "index"
    /\ UNCHANGED <<sim, pre, post_move, nsteps, type_data, proto_vars>>

NextMatrix == MatrixBuild \/ MatrixRead

SpecMatrix == InitMatrix /\ [][NextMatrix]_vars

\* distinct indices in range are read from distinct slots of the backing store
SlotsDistinct ==
    probe.built =>
        /\ \A a \in Indices(probe.size), b \in Indices(probe.size) :
              a # b => Slot(probe.matrix, a) # Slot(probe.matrix, b)
        /\ \A a \in Indices(probe.size) : Slot(probe.matrix, a) \in DOMAIN probe.matrix.data

\* C17: for every size and every index [i, j] in range,
\* from_fn(size, f)[[i, j]] = f([i, j]), and distinct indices in range are
\* read from distinct slots of the backing store.
C17_FromFnAgreesWithIndex ==
    /\ probe.done => probe.result = probe.function[probe.index]
    /\ SlotsDistinct

-----------------------------------------------------------------------------
(* SpecTorus: two particles in a grid of 3 x 3 cells *)

TorusGrid == <<3, 3>>

TorusEdgeTypes == {Wrapping, Deleting, Bouncing(Unit, (5 * Unit) \div 2)}

\* coordinates next to the edges of the world and of its cells, two of them
\* in one cell, and two a cell size apart around the world
TorusCoordinates == {5 * Unit, 30 * Unit, 95 * Unit, 150 * Unit, 205 * Unit, 295 * Unit}

InitTorus ==
    /\ \E edge_type \in TorusEdgeTypes,
          p \in TorusCoordinates \X TorusCoordinates,
          q \in TorusCoordinates \X TorusCoordinates :
          sim = add_random_particles(
                   NewSimulation(BUCKET_SIZE, TorusGrid,
                                 [edge_type |-> edge_type,
                                  prevent_particle_ejecting |-> TRUE],
                                 DefaultMetadata,
                                 new_from_fn(1, Unit, [index \in Indices(<<1, 1>>) |-> Unit])),
                   <<NewParticle(p, <<0, 0>>, 0), NewParticle(q, <<0, 0>>, 0)>>)
    /\ pre = sim
    /\ post_move = [buckets |-> sim.buckets, impulses |-> sim.impulses]
    /\ op = "new"
    /\ nsteps = 0
    /\ probe = NoSim
    /\ type_data = NoSim
    /\ NoProto

SpecTorus == InitTorus /\ [][NextSim]_vars

\* the particles of s, each named by its slot and its place in the bucket
ParticleIds(s) ==
    UNION {{<<i, k>> : k \in 1..Len(s.buckets.data[i])} : i \in DOMAIN s.buckets.data}

ParticleAt(s, id) == s.buckets.data[id[1]][id[2]]

\* the image of the difference d of two coordinates that is shortest around a
\* world of the given extent
MinimalImage(d, extent) ==
    IF 2 * d > extent THEN d - extent ELSE IF 2 * d < -extent THEN d + extent ELSE d

\* the toroidal shortest vector from p to q
ToroidalDelta(s, p, q) ==
    <<MinimalImage(q.position[1] - p.position[1], SimSize(s)[1]),
      MinimalImage(q.position[2] - p.position[2], SimSize(s)[2])>>

\* the vector from p to q the force law is to be applied to
ExpectedDelta(s, p, q) ==
    IF s.params.edge_type.kind = "Wrapping" THEN ToroidalDelta(s, p, q)
    ELSE <<q.position[1] - p.position[1], q.position[2] - p.position[2]>>

\* the toroidal distance of p and q is at most the cell size
WithinCell(s, p, q) ==
    LET d == ToroidalDelta(s, p, q)
    IN  d[1] * d[1] + d[2] * d[2] <= s.bucket_size * s.bucket_size

\* the slot of buckets.data the n-th call for a particle of slot i reads from
SourceSlot(s, i, e) ==
    IF e.src = 0 THEN i
    ELSE Slot(s.buckets, NeighborBucket(s, BucketIndexOfSlot(s, i), NEIGHBORS[e.src]).index)

\* the calls of update_impulse_with_particle for particle id with particle other
CallsWith(s, id, other) ==
    LET others == Others(s, id[1], id[2])
    IN  {n \in 1..Len(others) :
            SourceSlot(s, id[1], others[n]) = other[1] /\ others[n].j = other[2]}

\* the impulse on particle id: the force law applied once to every other
\* particle, set at the expected vector from the particle
ExpectedImpulse(s, id) ==
    LET p == ParticleAt(s, id)
        all == AllParticles(s.buckets)
    IN  VecSum([n \in 1..Len(all) |->
                  IF all[n].position = p.position THEN <<0, 0>>
                  ELSE LET d == ExpectedDelta(s, p, all[n])
                       IN  update_impulse_with_particle(
                               p,
                               [all[n] EXCEPT !.position = <<p.position[1] + d[1],
                                                             p.position[2] + d[2]>>],
                               s.type_data, s.params,
                               s.bucket_size * s.bucket_size, <<0, 0>>)])

\* no two particles of s are at one position
NoneCoincide(s) ==
    \A a \in ParticleIds(s), b \in ParticleIds(s) :
        a # b => ParticleAt(s, a).position # ParticleAt(s, b).position

\* a step started in a grid of at least 3 x 3 cells, with the bucket invariant
IsTraversal(s) ==
    /\ s.buckets.size[1] >= 3 /\ s.buckets.size[2] >= 3
    /\ BucketInvariant(s)
    /\ NoneCoincide(s)

\* C20: under Wrapping in a grid of at least 3 x 3 cells, started with the
\* bucket invariant, for every ordered pair of distinct particles (p, q) at a
\* toroidal distance of at most the cell size q is evaluated exactly once for
\* p, at the toroidal shortest vector, and no particle is evaluated for
\* itself; the impulse of p is the sum of the force law over these vectors.
\* Under Deleting or Bouncing cells beyond the grid contribute nothing: the
\* impulse of p is the sum of the force law over the real vectors.
C20_NeighbourTraversal ==
    (op = "step_simulation" /\ IsTraversal(pre)) =>
        \A id \in ParticleIds(pre) :
            /\ CallsWith(pre, id, id) = {}
            /\ post_move.impulses.data[id[1]][id[2]] = ExpectedImpulse(pre, id)
            /\ pre.params.edge_type.kind = "Wrapping" =>
                  \A other \in ParticleIds(pre) \ {id} :
                      WithinCell(pre, ParticleAt(pre, id), ParticleAt(pre, other)) =>
                          /\ Cardinality(CallsWith(pre, id, other)) = 1
                          /\ \A n \in CallsWith(pre, id, other) :
                                LET e == Others(pre, id[1], id[2])[n]
                                    p == ParticleAt(pre, id)
                                IN  <<e.other.position[1] - p.position[1],
                                      e.other.position[2] - p.position[2]>>
                                        = ToroidalDelta(pre, p, ParticleAt(pre, other))

\* a step under Wrapping with p at (5, 5) and q at (295, 295), in opposite
\* corners of the world: p is drawn across the corner, towards q
C20_Witness ==
    /\ op = "step_simulation" /\ IsTraversal(pre)
    /\ pre.params.edge_type.kind = "Wrapping"
    /\ Len(pre.buckets.data[1]) = 1 /\ Len(pre.buckets.data[9]) = 1
    /\ pre.buckets.data[1][1].position = <<5 * Unit, 5 * Unit>>
    /\ pre.buckets.data[9][1].position = <<295 * Unit, 295 * Unit>>
    /\ post_move.impulses.data[1][1][1] < 0 /\ post_move.impulses.data[1][1][2] < 0

-----------------------------------------------------------------------------
(* SpecSim: the integrator *)

\* v + I of particle k of slot i in the step just taken
UpdatedVelocity(i, k) ==
    <<pre.buckets.data[i][k].velocity[1] + post_move.impulses.data[i][k][1],
      pre.buckets.data[i][k].velocity[2] + post_move.impulses.data[i][k][2]>>

\* the step moved a single particle that felt nothing and stayed in the world
IsFreeFlight ==
    /\ op = "step_simulation"
    /\ Len(AllParticles(pre.buckets)) = 1
    /\ AllParticles(post_move.impulses) = << <<0, 0>> >>
    /\ InWorld(pre, AllParticles(post_move.buckets)[1].position)

\* C22: one integration of a particle with velocity v and impulse I sets
\* position' = position + (v + I) / 2, the displacement taken from the updated
\* velocity before damping, and velocity' = 0.9 * (v + I); a particle that
\* receives no impulse and does not touch an edge has its velocity multiplied
\* by 0.9 in the step.
C22_Integrator ==
    op = "step_simulation" =>
        /\ \A i \in DOMAIN pre.buckets.data :
              /\ Len(post_move.buckets.data[i]) = Len(pre.buckets.data[i])
              /\ \A k \in 1..Len(pre.buckets.data[i]) :
                    LET p == pre.buckets.data[i][k]
                        moved == post_move.buckets.data[i][k]
                        u == UpdatedVelocity(i, k)
                    IN  /\ moved.position = <<p.position[1] + RoundDiv(u[1], 2),
                                              p.position[2] + RoundDiv(u[2], 2)>>
                        /\ moved.velocity = <<RoundDiv(9 * u[1], 10), RoundDiv(9 * u[2], 10)>>
                        /\ moved.typ = p.typ
        /\ IsFreeFlight =>
              /\ Len(AllParticles(sim.buckets)) = 1
              /\ AllParticles(sim.buckets)[1].velocity
                    = <<RoundDiv(9 * AllParticles(pre.buckets)[1].velocity[1], 10),
                        RoundDiv(9 * AllParticles(pre.buckets)[1].velocity[2], 10)>>

\* a step of two particles, one of them moving, that act on each other
C22_Witness ==
    /\ op = "step_simulation"
    /\ Len(AllParticles(pre.buckets)) = 2
    /\ \E n \in 1..2 : /\ AllParticles(pre.buckets)[n].velocity # <<0, 0>>
                       /\ AllParticles(post_move.impulses)[n] # <<0, 0>>
    /\ nsteps = 2

-----------------------------------------------------------------------------
(* SpecCount: the particle counter under inserts, seeding, clearing and steps *)

\* the most particles counted before another is inserted
MaxCounted == 2

\* the positions handed to insert_particle: in the world of 2 x 2 cells, and
\* beyond each of its edges
InsertPositions ==
    {<<199 * Unit, 150 * Unit>>, <<-Unit, 50 * Unit>>, <<200 * Unit, 50 * Unit>>,
     <<50 * Unit, 250 * Unit>>}

\* the positions random_range(0.0..size) is taken to yield
RandomPositions == {<<60 * Unit, 50 * Unit>>, <<0, 0>>}

InsertVelocities == {<<4 * Unit, 0>>}

InitCount ==
    /\ \E edge_type \in EdgeTypes :
          sim = NewSimulation(BUCKET_SIZE, <<2, 2>>,
                              [edge_type |-> edge_type, prevent_particle_ejecting |-> TRUE],
                              DefaultMetadata,
                              new_from_fn(1, Unit, [index \in Indices(<<1, 1>>) |-> Unit]))
    /\ pre = sim
    /\ post_move = [buckets |-> sim.buckets, impulses |-> sim.impulses]
    /\ op = "new"
    /\ nsteps = 0
    /\ probe = [returned |-> TRUE]
    /\ type_data = NoSim
    /\ NoProto

\* insert_particle(particle); probe.returned is TRUE for Some(())
CountInsert ==
    /\ sim.metadata.num_particles < MaxCounted
    /\ \E position \in InsertPositions, velocity \in InsertVelocities :
          /\ sim' = insert_particle(sim, NewParticle(position, velocity, 0))
          /\ probe' = [returned |-> bucket_index_of_position(sim, position) # None]
    /\ pre' = sim
    /\ op' = "insert_particle"
    /\ UNCHANGED <<post_move, nsteps, type_data, proto_vars>>

\* add_random_particles(count)
CountAddRandom ==
    /\ \E count \in 1..MaxCounted :
          /\ sim.metadata.num_particles + count <= MaxCounted
          /\ \E positions \in [1..count -> RandomPositions] :
                sim' = add_random_particles(
                          sim, [k \in 1..count |-> NewParticle(positions[k], <<0, 0>>, 0)])
    /\ pre' = sim
    /\ op' = "add_random_particles"
    /\ UNCHANGED <<post_move, nsteps, probe, type_data, proto_vars>>

\* clear_particles()
CountClear ==
    /\ sim.metadata.num_particles > 0
    /\ sim' = clear_particles(sim)
    /\ pre' = sim
    /\ op' = "clear_particles"
    /\ UNCHANGED <<post_move, nsteps, probe, type_data, proto_vars>>

NextCount == CountInsert \/ CountAddRandom \/ CountClear \/ SimStep

SpecCount == InitCount /\ [][NextCount]_vars

\* C23: after any sequence of insert_particle (at positions in the world or
\* not), add_random_particles, clear_particles and step_simulation,
\* num_particles is the number of particles stored in the cells; an insert
\* that fails for a position outside the world leaves num_particles as it was.
C23_CounterAgrees ==
    /\ sim.metadata.num_particles = Len(AllParticles(sim.buckets))
    /\ (op = "insert_particle" /\ ~probe.returned) =>
          sim.metadata.num_particles = pre.metadata.num_particles

-----------------------------------------------------------------------------
(* SpecProto: what the two threads accept from each other *)

\* the update_id of the simulation thread is at most that of every snapshot
\* on its way to it
NoneOutdatedInFlight ==
    \A k \in 1..Len(user_input_rx) :
        simulation.metadata.update_id <= user_input_rx[k].metadata.update_id

\* the simulation thread takes a snapshot off its queue and makes it its state
WorkerAcceptsStep ==
    Len(user_input_rx') < Len(user_input_rx) =>
        /\ simulation' = user_input_rx[1]
        /\ user_input_rx' = SubSeq(user_input_rx, 2, Len(user_input_rx))

\* C24: the simulation thread never drops a snapshot of the UI: in every
\* reachable state its update_id is at most the update_id of every snapshot
\* in flight on the queue from the UI, so that every snapshot the UI
\* published is accepted when it is received.
C24_WorkerNeverDrops == [][WorkerAcceptsStep]_vars /\ []NoneOutdatedInFlight

\* the simulation thread, having stepped, has taken a newer snapshot while
\* another is in flight
C24_Witness ==
    /\ delivery.to = "worker"
    /\ delivery.prior < delivery.update_id
    /\ simulation.metadata.update_id = delivery.update_id
    /\ Len(user_input_rx) > 0
    /\ nsteps > 0

\* the UI takes a snapshot off its queue and changes its buffer
UIAccepted ==
    /\ Len(simulation_rx') < Len(simulation_rx)
    /\ simulation_buffer' # simulation_buffer

\* an accepted snapshot carries the id of the last publish (0 before the
\* first) and brings the parameters, the type table and the pause state the
\* buffer already has
UIAcceptsStep ==
    UIAccepted =>
        /\ simulation_buffer' = simulation_rx[1]
        /\ simulation_rx[1].metadata.update_id
              = (IF Len(published) = 0 THEN 0 ELSE published[Len(published)])
        /\ simulation_buffer'.metadata.update_id = simulation_buffer.metadata.update_id
        /\ simulation_buffer'.params = simulation_buffer.params
        /\ simulation_buffer'.type_data = simulation_buffer.type_data
        /\ simulation_buffer'.metadata.is_active = simulation_buffer.metadata.is_active

\* C25: no edit of the UI is lost to a stale snapshot of the simulation
\* thread: once the UI has published update_id k, every snapshot it accepts
\* later was derived from a snapshot of the UI with update_id >= k, so the
\* buffer never reverts to parameters, a type table or a pause state older
\* than a published edit.
C25_NoEditLost ==
    [][UIAcceptsStep]_vars
    /\ [](\A k \in 1..Len(published) : published[k] <= simulation_buffer.metadata.update_id)

\* the UI, after two publishes, has accepted a stepped snapshot
C25_Witness ==
    /\ op = "UIReceive"
    /\ delivery.to = "ui"
    /\ Len(published) >= 2
    /\ delivery.update_id = published[Len(published)]
    /\ simulation_buffer.metadata.update_id = delivery.update_id
    /\ simulation_buffer = simulation
    /\ nsteps > 0

-----------------------------------------------------------------------------
(* SpecProto: the accounting of the owed steps *)

\* a step of the simulation thread running resets the owed steps, a step of
\* it paused takes one of at least one owed step; nothing else but a received
\* snapshot changes the owed steps of the thread
StepAccounting ==
    /\ nsteps' = nsteps + 1 =>
          IF simulation.metadata.is_active
          THEN simulation'.metadata.steps = 0
          ELSE /\ simulation.metadata.steps > 0
               /\ simulation'.metadata.steps = simulation.metadata.steps - 1
    /\ (nsteps' = nsteps /\ simulation'.metadata.steps # simulation.metadata.steps) =>
          /\ Len(user_input_rx') < Len(user_input_rx)
          /\ simulation' = user_input_rx[1]

\* no copy of the metadata owes less than no step
NoneBelowZero ==
    /\ simulation.metadata.steps >= 0
    /\ simulation_buffer.metadata.steps >= 0
    /\ \A k \in 1..Len(user_input_rx) : user_input_rx[k].metadata.steps >= 0
    /\ \A k \in 1..Len(simulation_rx) : simulation_rx[k].metadata.steps >= 0

\* C27: the simulation thread decrements metadata.steps only when paused with
\* steps > 0, by one per executed step, and resets steps to 0 after a step
\* executed while running; steps is never decremented at 0.
C27_NoUnderflow == [][StepAccounting]_vars /\ []NoneBelowZero

\* the thread, paused, has executed an owed step and owes none
C27_Witness ==
    /\ op = "WorkerStep"
    /\ ~simulation.metadata.is_active
    /\ simulation.metadata.steps = 0
    /\ delivered.worker # {}

-----------------------------------------------------------------------------
(* SpecSteps: the two threads while the simulation is paused: the UI asks *)
(* for single steps and edits the edge type, the simulation thread steps  *)

\* the largest update_id the UI publishes
StepsMaxUpdateId == 3

\* the largest number of edits in one UI frame
StepsMaxEdits == 1

\* more steps than the simulation thread can come to owe: the k-th publish
\* carries at most k * StepsMaxEdits owed steps
StepsWorkerBound ==
    1 + (StepsMaxEdits * (StepsMaxUpdateId - 1) * StepsMaxUpdateId) \div 2

\* the state after the first edit, a pause, has reached the simulation
\* thread: both threads hold the snapshot published under update_id 1
InitSteps ==
    /\ LET td == new_random(1, Unit, [index \in Indices(<<1, 1>>) |-> Unit])
           particles == [k \in 1..ParticleCount |-> NewParticle(ProtoPosition(k), <<0, 0>>, 0)]
       IN  simulation = [simulation_from_size(ProtoGrid, td, particles) EXCEPT
                           !.metadata.is_active = FALSE,
                           !.metadata.update_id = 1]
    /\ simulation_buffer = simulation
    /\ user_input_rx = <<>> /\ simulation_rx = <<>>
    /\ worker_pc = "recv" /\ ui_pc = "try_recv" /\ ui_line = 0 /\ updated = FALSE
    /\ edits = 0
    /\ delivery = [to |-> "worker", update_id |-> 1, prior |-> 0]
    /\ delivered = [worker |-> {1}, ui |-> {}]
    /\ published = <<1>>
    /\ op = "new"
    /\ nsteps = 0
    /\ sim = NoSim /\ pre = NoSim /\ post_move = NoSim
    /\ probe = [requested |-> 0]
    /\ type_data = NoSim

\* an edit of the frame; probe.requested counts the steps asked for
StepsEdit(line, name, buffer) ==
    /\ ui_pc = "edit"
    /\ ui_line < line
    /\ edits < StepsMaxEdits
    /\ simulation_buffer.metadata.update_id < StepsMaxUpdateId
    /\ simulation_buffer' = buffer
    /\ pre' = simulation_buffer
    /\ ui_line' = line
    /\ edits' = edits + 1
    /\ updated' = TRUE
    /\ op' = name
    /\ probe' = [requested |-> probe.requested
                                + buffer.metadata.steps - simulation_buffer.metadata.steps]
    /\ UNCHANGED <<simulation_rx, ui_pc, delivery, delivered, published>>
    /\ UNCHANGED <<sim, post_move, type_data>>
    /\ WorkerFrame

\* main.rs 343-350: the "Step" label is clicked
StepsUIStep ==
    StepsEdit(348, "UIStep", [simulation_buffer EXCEPT !.metadata.steps = @ + 1])

\* main.rs 574-598: another edge type is selected
StepsUIEdgeType ==
    \E edge_type \in ProtoEdgeTypes \ {simulation_buffer.params.edge_type} :
       StepsEdit(574, "edge_type", [simulation_buffer EXCEPT !.params.edge_type = edge_type])

\* main.rs 681-684: Shift + Space asks for one step
StepsUIKeyStep ==
    StepsEdit(684, "UIKeyStep", [simulation_buffer EXCEPT !.metadata.steps = @ + 1])

StepsWorkerStep == WorkerStepWithin(StepsWorkerBound)

\* the simulation thread but for step_simulation
StepsWorkerLoop ==
    WorkerRecv \/ WorkerSkipRecv \/ WorkerTryRecv \/ WorkerEmpty \/ WorkerIdle

\* StepsWorkerStep can be taken: its guard
StepsStepReady ==
    /\ worker_pc = "step"
    /\ simulation.metadata.is_active \/ simulation.metadata.steps > 0
    /\ nsteps < StepsWorkerBound
    /\ Len(simulation_rx) < MaxQueue

\* weak fairness of StepsWorkerStep, its enabling condition written out
StepsStepFair == ([]<>~StepsStepReady) \/ ([]<><<StepsWorkerStep>>_vars)

\* the UI thread but for the edits, which wait for the user
StepsUIThread == UIReceive \/ UIEmpty \/ UIPublish \/ UIFrameEnd

NextSteps ==
    \/ WorkerRecv \/ WorkerSkipRecv \/ WorkerTryRecv \/ WorkerEmpty
    \/ StepsWorkerStep \/ WorkerIdle
    \/ UIReceive \/ UIEmpty
    \/ StepsUIStep \/ StepsUIEdgeType \/ StepsUIKeyStep
    \/ UIPublish \/ UIFrameEnd

SpecSteps == InitSteps /\ [][NextSteps]_vars

\* both threads run for ever: each takes its next step if it can
SpecStepsFair ==
    SpecSteps /\ WF_vars(StepsWorkerLoop) /\ StepsStepFair /\ WF_vars(StepsUIThread)

\* C26: while the simulation stays paused, the number of steps the simulation
\* thread has executed never exceeds the number of steps asked for at the UI.
C26_StepsAsRequested == nsteps <= probe.requested

\* the UI holds a paused simulation and has nothing left to publish
UIQuietPaused ==
    /\ ~simulation_buffer.metadata.is_active
    /\ ~updated
    /\ \A k \in 1..Len(user_input_rx) : ~user_input_rx[k].metadata.is_active

\* the simulation thread waits in recv() owing no step, the UI has drained
\* its queue, and the UI's buffer is the state of the simulation thread
Quiescent ==
    /\ WaitsInRecv
    /\ Len(simulation_rx) = 0
    /\ simulation_buffer = simulation

\* C28: if the last edit the UI published leaves the simulation paused and
\* the UI publishes nothing afterwards, then, both threads running for ever,
\* the simulation thread eventually executes the steps it owes, owes none and
\* waits in recv(), and once the UI has drained its queue its buffer equals
\* the state of the simulation thread: update_id, particles and metadata.
C28_PausedQuiescence == (<>[]UIQuietPaused) => <>[]Quiescent

\* quiescence after two steps and two publishes since the pause
C28_Witness ==
    /\ Quiescent
    /\ UIQuietPaused
    /\ nsteps >= 2
    /\ Len(published) >= 3
    /\ delivered.ui # {}

-----------------------------------------------------------------------------
(* SpecTasks: move_particles as its parallel tasks. The outer par_iter_mut  *)
(* runs one task per cell of the impulse matrix, which clears and resizes   *)
(* the cell and runs one task per impulse of the cell; a task makes its     *)
(* calls of update_impulse_with_particle one after the other. The loop that *)
(* moves the particles follows the parallel iterator.                       *)

\* the positions of the particles, no two of them equal
TaskPositions ==
    {<<50 * Unit, 50 * Unit>>, <<60 * Unit, 50 * Unit>>, <<50 * Unit, 58 * Unit>>,
     <<110 * Unit, 50 * Unit>>, <<190 * Unit, 150 * Unit>>}

TaskEdgeTypes == {Wrapping, Deleting}

\* sets of n positions as sequences in the order of their insertion
TaskSeedings(n) ==
    {q \in [1..n -> TaskPositions] : \A a, b \in 1..n : a # b => q[a] # q[b]}

InitTasks ==
    /\ \E edge_type \in TaskEdgeTypes, n \in 2..3 :
          \E q \in TaskSeedings(n) :
             sim = add_random_particles(
                      NewSimulation(BUCKET_SIZE, <<2, 2>>,
                                    [edge_type |-> edge_type,
                                     prevent_particle_ejecting |-> TRUE],
                                    DefaultMetadata,
                                    new_from_fn(1, Unit, [index \in Indices(<<1, 1>>) |-> Unit])),
                      [k \in 1..n |-> NewParticle(q[k], <<0, 0>>, 0)])
    /\ pre = sim
    /\ post_move = [buckets |-> sim.buckets, impulses |-> sim.impulses]
    /\ probe = [phase |-> "impulses",
                begun |-> {},
                calls |-> [i \in DOMAIN sim.buckets.data |->
                             [k \in 1..Len(sim.buckets.data[i]) |-> 0]]]
    /\ op = "new"
    /\ nsteps = 0
    /\ type_data = NoSim
    /\ NoProto

\* a task of a particle adding to the first impulse of its cell
ParticleTaskShared(i, k) ==
    /\ probe.phase = "impulses"
    /\ i \in probe.begun
    /\ probe.calls[i][k] < Len(Others(sim, i, k))
    /\ LET e == Others(sim, i, k)[probe.calls[i][k] + 1]
           contribution ==
               update_impulse_with_particle(sim.buckets.data[i][k], e.other, sim.type_data,
                                            sim.params, sim.bucket_size * sim.bucket_size,
                                            <<0, 0>>)
       IN  sim' = [sim EXCEPT !.impulses.data[i][1] =
                      <<@[1] + contribution[1], @[2] + contribution[2]>>]
    /\ probe' = [probe EXCEPT !.calls[i][k] = @ + 1]
    /\ op' = "update_impulse_with_particle"
    /\ UNCHANGED <<pre, post_move, nsteps, type_data, proto_vars>>

\* particle_simulation.rs 88-96: the task of cell i clears and resizes its impulses
CellTask(i) ==
    /\ probe.phase = "impulses"
    /\ i \notin probe.begun
    /\ sim' = [sim EXCEPT !.impulses.data[i] =
                  [k \in 1..Len(sim.buckets.data[i]) |-> <<0, 0>>]]
    /\ probe' = [probe EXCEPT !.begun = @ \cup {i}]
    /\ op' = "resize"
    /\ UNCHANGED <<pre, post_move, nsteps, type_data, proto_vars>>

\* particle_simulation.rs 97-183: the task of impulse k of cell i makes its
\* next call of update_impulse_with_particle
ParticleTask(i, k) ==
    /\ probe.phase = "impulses"
    /\ i \in probe.begun
    /\ probe.calls[i][k] < Len(Others(sim, i, k))
    /\ LET e == Others(sim, i, k)[probe.calls[i][k] + 1]
           contribution ==
               update_impulse_with_particle(sim.buckets.data[i][k], e.other, sim.type_data,
                                            sim.params, sim.bucket_size * sim.bucket_size,
                                            <<0, 0>>)
       IN  sim' = [sim EXCEPT !.impulses.data[i][k] =
                      <<@[1] + contribution[1], @[2] + contribution[2]>>]
    /\ probe' = [probe EXCEPT !.calls[i][k] = @ + 1]
    /\ op' = "update_impulse_with_particle"
    /\ UNCHANGED <<pre, post_move, nsteps, type_data, proto_vars>>

\* every task of the parallel iterator has returned
TasksDone ==
    /\ probe.begun = DOMAIN sim.buckets.data
    /\ \A i \in DOMAIN sim.buckets.data :
          \A k \in 1..Len(sim.buckets.data[i]) :
             probe.calls[i][k] = Len(Others(sim, i, k))

\* particle_simulation.rs 186-195: the particles are moved, the impulses cleared
MoveTask ==
    /\ probe.phase = "impulses"
    /\ TasksDone
    /\ LET moved == [i \in DOMAIN sim.buckets.data |->
                        [k \in 1..Len(sim.buckets.data[i]) |->
                            apply_velocity(sim.buckets.data[i][k], sim.impulses.data[i][k])]]
       IN  /\ sim' = [sim EXCEPT !.buckets.data = moved,
                                 !.impulses.data = [i \in DOMAIN sim.impulses.data |-> <<>>]]
           /\ post_move' = [buckets |-> [sim.buckets EXCEPT !.data = moved],
                            impulses |-> sim.impulses]
    /\ probe' = [probe EXCEPT !.phase = "moved"]
    /\ nsteps' = nsteps + 1
    /\ op' = "move_particles"
    /\ UNCHANGED <<pre, type_data, proto_vars>>

NextTasks ==
    \/ \E i \in DOMAIN sim.buckets.data : CellTask(i)
    \/ \E i \in DOMAIN sim.buckets.data :
          \E k \in 1..Len(sim.buckets.data[i]) : ParticleTask(i, k)
    \/ MoveTask

SpecTasks == InitTasks /\ [][NextTasks]_vars

\* a step of the impulse phase leaves the particles and the cell lists alone
\* and writes no impulse but that of the task taking the step
TaskStep ==
    (probe.phase = "impulses" /\ probe'.phase = "impulses") =>
        /\ sim'.buckets = sim.buckets
        /\ \A i \in DOMAIN sim.impulses.data :
              sim'.impulses.data[i] # sim.impulses.data[i] =>
                  \/ i \notin probe.begun /\ i \in probe'.begun
                  \/ /\ Len(sim'.impulses.data[i]) = Len(sim.impulses.data[i])
                     /\ \A k \in 1..Len(sim.impulses.data[i]) :
                           sim'.impulses.data[i][k] # sim.impulses.data[i][k] =>
                               probe'.calls[i][k] = probe.calls[i][k] + 1

\* the particles are moved only when every impulse is written
MoveStep == (probe.phase = "impulses" /\ probe'.phase = "moved") => TasksDone

\* during the impulse phase the impulses of a begun cell are as many as its
\* particles
ScratchSized ==
    probe.phase = "impulses" =>
        \A i \in probe.begun : Len(sim.impulses.data[i]) = Len(sim.buckets.data[i])

\* whatever the order of the tasks, the impulses and the moved particles are
\* those of the evaluation cell after cell, particle after particle
SameForEveryOrder ==
    probe.phase = "moved" =>
        /\ post_move.impulses = FilledImpulses(pre, <<>>)
        /\ sim = move_particles(pre, <<>>)

\* C21: during the impulse phase every impulse slot (cell, k) is written only
\* by the task of particle k of that cell, the scratch cell is sized to the
\* number of particles of the matching grid cell, and no task modifies a
\* particle or a cell list; so, no two particles coinciding, the impulses are
\* the same for every interleaving of the tasks, and the particles are moved
\* only after all impulses are written.
C21_RaceFreeImpulses ==
    [][TaskStep /\ MoveStep]_vars /\ [](ScratchSized /\ SameForEveryOrder)

\* three particles, two of them in one cell, moved by impulses that differ
C21_Witness ==
    /\ probe.phase = "moved"
    /\ Len(pre.buckets.data[1]) = 2
    /\ Len(AllParticles(pre.buckets)) = 3
    /\ post_move.impulses.data[1][1] # <<0, 0>>
    /\ post_move.impulses.data[1][2] # post_move.impulses.data[1][1]

====
